---- MODULE Spec2Model ----
(***************************************************************************)
(* Model of the ODS content codec of spreadsheet-ods (src/src/ods/mod.rs): *)
(* the structural serializer (write_ods_content, write_sheet, write_cell)  *)
(* and the structural parser (read_content, read_table_cell, parse_value). *)
(*                                                                         *)
(* Strings are sequences of symbols.  A symbol is one character where the  *)
(* code scans characters (numbers, durations, dates) and one whole word    *)
(* where the code only compares or copies the string (element names,       *)
(* value-type markers, style names).                                       *)
(***************************************************************************)
EXTENDS Integers, Sequences, FiniteSets, TLC

VARIABLES
    book_in,      \* the WorkBook handed to the serializer (sequence of sheets)
    wpc,          \* position of the serializer: "idle", "sheet", "cells", "tail", "done"
    wsheet,       \* index of the sheet write_sheet is working on
    wstate,       \* locals of write_sheet: first_cell, last_r, last_c, next cell index
    xml,          \* the XML event source the parser reads from
    pc,           \* position of the parser: "content", "cell", "fonts", "styles", "ok", "err"
    book,         \* the WorkBook under construction (sequence of pushed sheets)
    sheet,        \* the current Sheet of read_content
    cur,          \* cursors of read_content: tcol, row, col, row_repeat, row_style
    pend,         \* locals of read_table_cell: cell, cell_repeat, value_type, ...
    err,          \* the OdsError read_content returned, when pc = "err"
    arch,         \* write_ods_clean: its position, the file system, the output archive
    xw,           \* an XmlWriter: its build, stack, open tag and what close() returned
    fmt           \* a locale's default currency format under construction and its rendering

contentVars == <<book_in, wpc, wsheet, wstate, xml, pc, book, sheet, cur, pend, err>>
otherVars == <<arch, xw, fmt>>
vars == <<contentVars, otherVars>>

(***************************************************************************)
(* Option<T>: None is the empty sequence, Some(x) the one-element sequence *)
(***************************************************************************)
None == <<>>
Some(x) == <<x>>
IsSome(o) == o # <<>>
Get(o) == o[1]

RECURSIVE Concat(_)
Concat(ss) == IF ss = <<>> THEN <<>> ELSE Head(ss) \o Concat(Tail(ss))

Max2(a, b) == IF a >= b THEN a ELSE b
Abs(a) == IF a < 0 THEN -a ELSE a

(***************************************************************************)
(* Characters and decimal numbers                                          *)
(***************************************************************************)
Digits == <<"0", "1", "2", "3", "4", "5", "6", "7", "8", "9">>
IsDigit(c) == \E i \in 1..10 : Digits[i] = c
DigitVal(c) == (CHOOSE i \in 1..10 : Digits[i] = c) - 1
AllDigits(s) == \A i \in 1..Len(s) : IsDigit(s[i])

\* i64/usize::to_string for n >= 0
RECURSIVE NatToStr(_)
NatToStr(n) == IF n < 10 THEN <<Digits[n + 1]>>
               ELSE NatToStr(n \div 10) \o <<Digits[(n % 10) + 1]>>

\* integer Display: a leading '-' for negative numbers
IntToStr(n) == IF n < 0 THEN <<"-">> \o NatToStr(-n) ELSE NatToStr(n)

\* value of a digit string
RECURSIVE DigitsToNat(_)
DigitsToNat(s) == IF s = <<>> THEN 0
                  ELSE DigitsToNat(SubSeq(s, 1, Len(s) - 1)) * 10 + DigitVal(s[Len(s)])

\* zero padded to width w
RECURSIVE PadNat(_, _)
PadNat(n, w) == IF w <= 1 THEN NatToStr(n)
                ELSE IF Len(NatToStr(n)) >= w THEN NatToStr(n)
                ELSE <<"0">> \o PadNat(n, w - 1)

\* str::parse::<usize>(): one or more digits (an optional leading '+' is not modelled)
ParseUsize(s) == IF s # <<>> /\ AllDigits(s)
                 THEN [ok |-> TRUE, n |-> DigitsToNat(s)]
                 ELSE [ok |-> FALSE, n |-> 0]

\* Rust truncating division and remainder (sign of the dividend)
TDiv(a, b) == IF a >= 0 THEN a \div b ELSE -((-a) \div b)
TRem(a, b) == a - b * TDiv(a, b)

(***************************************************************************)
(* f64.  The model's floats are the decimal numbers with one fractional    *)
(* digit, held as a count of tenths: 15 is 1.5.                            *)
(***************************************************************************)
\* f64 Display: shortest decimal form, no trailing ".0"
F64ToString(t) ==
    (IF t < 0 THEN <<"-">> ELSE <<>>)
    \o NatToStr(Abs(t) \div 10)
    \o (IF Abs(t) % 10 = 0 THEN <<>> ELSE <<".", Digits[(Abs(t) % 10) + 1]>>)

IndexOf(s, c) == IF \E i \in 1..Len(s) : s[i] = c
                 THEN CHOOSE i \in 1..Len(s) : s[i] = c /\ \A j \in 1..(i - 1) : s[j] # c
                 ELSE 0

\* str::parse::<f64>() on decimal literals [+-]digits[.digits]; anything else
\* (a '%', a letter, an empty string) is a ParseFloatError.  Fractional digits
\* after the first are beyond the model's floats and are dropped.
ParseF64(s) ==
    LET signed == s # <<>> /\ s[1] \in {"-", "+"}
        body   == IF signed THEN Tail(s) ELSE s
        dot    == IndexOf(body, ".")
        ip     == IF dot = 0 THEN body ELSE SubSeq(body, 1, dot - 1)
        fp     == IF dot = 0 THEN <<>> ELSE SubSeq(body, dot + 1, Len(body))
        good   == AllDigits(ip) /\ AllDigits(fp) /\ Len(ip) + Len(fp) > 0
        mag    == DigitsToNat(ip) * 10 + (IF fp = <<>> THEN 0 ELSE DigitVal(fp[1]))
    IN  IF good
        THEN [ok |-> TRUE, f |-> IF signed /\ s[1] = "-" THEN -mag ELSE mag]
        ELSE [ok |-> FALSE, f |-> 0]

(***************************************************************************)
(* Value (crate::Value) and ValueType.  One record shape per variant.      *)
(* chrono's NaiveDateTime is its calendar fields; chrono's Duration is     *)
(* whole seconds (floor) plus 0 <= nanos < 10^9, as chrono stores it.      *)
(***************************************************************************)
VText(s) == [kind |-> "Text", s |-> s]
VNumber(f) == [kind |-> "Number", f |-> f]
VPercentage(f) == [kind |-> "Percentage", pct |-> f]
VCurrency(c, f) == [kind |-> "Currency", cur |-> c, amt |-> f]
VBoolean(b) == [kind |-> "Boolean", b |-> b]
VDateTime(dt) == [kind |-> "DateTime", dt |-> dt]
VTimeDuration(secs, nanos) == [kind |-> "TimeDuration", secs |-> secs, nanos |-> nanos]

NanosPerSec == 1000000000
NanosPerMilli == 1000000

\* chrono::Duration::milliseconds(ms)
DurationOfMillis(ms) == VTimeDuration(ms \div 1000, (ms % 1000) * NanosPerMilli)
\* chrono::Duration::num_seconds / num_minutes / num_hours / num_milliseconds
NumSeconds(d) == IF d.secs < 0 /\ d.nanos > 0 THEN d.secs + 1 ELSE d.secs
NumMinutes(d) == TDiv(NumSeconds(d), 60)
NumHours(d) == TDiv(NumSeconds(d), 3600)
NumMilliseconds(d) ==
    NumSeconds(d) * 1000
    + TDiv(IF d.secs < 0 /\ d.nanos > 0 THEN d.nanos - NanosPerSec ELSE d.nanos,
           NanosPerMilli)

DateTimeOf(y, mo, d, h, mi, s, ns) ==
    [y |-> y, mo |-> mo, d |-> d, h |-> h, mi |-> mi, s |-> s, ns |-> ns]

IsLeap(y) == (y % 4 = 0 /\ y % 100 # 0) \/ y % 400 = 0
DaysInMonth(y, mo) ==
    IF mo = 2 THEN (IF IsLeap(y) THEN 29 ELSE 28)
    ELSE IF mo \in {4, 6, 9, 11} THEN 30 ELSE 31

\* chrono format item %.f: nothing for 0 ns, else '.' and 3, 6 or 9 digits
FormatDotF(ns) ==
    IF ns = 0 THEN <<>>
    ELSE IF ns % 1000000 = 0 THEN <<".">> \o PadNat(ns \div 1000000, 3)
    ELSE IF ns % 1000 = 0 THEN <<".">> \o PadNat(ns \div 1000, 6)
    ELSE <<".">> \o PadNat(ns, 9)

\* NaiveDateTime::format("%Y-%m-%dT%H:%M:%S%.f"), years 0..9999
FormatDateTime(dt) ==
    PadNat(dt.y, 4) \o <<"-">> \o PadNat(dt.mo, 2) \o <<"-">> \o PadNat(dt.d, 2)
    \o <<"T">> \o PadNat(dt.h, 2) \o <<":">> \o PadNat(dt.mi, 2) \o <<":">>
    \o PadNat(dt.s, 2) \o FormatDotF(dt.ns)

\* chrono's numeric scan: 1..w digits starting at position i (greedy)
RECURSIVE DigitRun(_, _, _)
DigitRun(s, i, w) == IF w = 0 \/ i > Len(s) \/ ~IsDigit(s[i]) THEN 0
                     ELSE 1 + DigitRun(s, i + 1, w - 1)
ScanNum(s, i, w) ==
    LET n == DigitRun(s, i, w)
    IN  [ok |-> n > 0, n |-> DigitsToNat(SubSeq(s, i, i + n - 1)), next |-> i + n]
ScanLit(s, i, c) == i <= Len(s) /\ s[i] = c

RECURSIVE PadRight(_, _)
PadRight(n, k) == IF k <= 0 THEN n ELSE PadRight(n * 10, k - 1)

\* NaiveDate::parse_from_str(s, "%Y-%m-%d"): [ok, y, mo, d, next].  Each
\* step takes the fields scanned so far.
DateFields(s, y, mo, d) ==
    [ok |-> /\ y.ok /\ ScanLit(s, y.next, "-")
            /\ mo.ok /\ ScanLit(s, mo.next, "-")
            /\ d.ok
            /\ mo.n \in 1..12 /\ d.n >= 1 /\ d.n <= DaysInMonth(y.n, mo.n),
     y |-> y.n, mo |-> mo.n, d |-> d.n, next |-> d.next]
ScanDay(s, y, mo) == DateFields(s, y, mo, ScanNum(s, mo.next + 1, 2))
ScanMonth(s, y) == ScanDay(s, y, ScanNum(s, y.next + 1, 2))
ScanDate(s) == ScanMonth(s, ScanNum(s, 1, 4))

NoDateTime == [ok |-> FALSE, dt |-> DateTimeOf(0, 1, 1, 0, 0, 0, 0)]

DateResult(s, d) ==
    IF d.ok /\ d.next = Len(s) + 1
    THEN [ok |-> TRUE, dt |-> DateTimeOf(d.y, d.mo, d.d, 0, 0, 0, 0)]
    ELSE NoDateTime
ParseDate(s) == DateResult(s, ScanDate(s))

\* NaiveDateTime::parse_from_str(s, "%Y-%m-%dT%H:%M:%S%.f"); the fraction is
\* optional, 1..9 digits, right-padded to nanoseconds; nothing may follow
DateTimeFields(s, d, h, mi, sc, fr) ==
    IF /\ d.ok /\ ScanLit(s, d.next, "T")
       /\ h.ok /\ ScanLit(s, h.next, ":")
       /\ mi.ok /\ ScanLit(s, mi.next, ":")
       /\ sc.ok
       /\ (ScanLit(s, sc.next, ".") => fr.ok)
       /\ (IF ScanLit(s, sc.next, ".") THEN fr.next ELSE sc.next) = Len(s) + 1
       /\ h.n <= 23 /\ mi.n <= 59 /\ sc.n <= 59
    THEN [ok |-> TRUE,
          dt |-> DateTimeOf(d.y, d.mo, d.d, h.n, mi.n, sc.n,
                            IF ScanLit(s, sc.next, ".")
                            THEN PadRight(fr.n, 9 - (fr.next - (sc.next + 1)))
                            ELSE 0)]
    ELSE NoDateTime
ScanFraction(s, d, h, mi, sc) == DateTimeFields(s, d, h, mi, sc, ScanNum(s, sc.next + 1, 9))
ScanSecond(s, d, h, mi) == ScanFraction(s, d, h, mi, ScanNum(s, mi.next + 1, 2))
ScanMinute(s, d, h) == ScanSecond(s, d, h, ScanNum(s, h.next + 1, 2))
ScanHour(s, d) == ScanMinute(s, d, ScanNum(s, d.next + 1, 2))
ParseDateTime(s) == ScanHour(s, ScanDate(s))

(***************************************************************************)
(* Result<Option<Value>, OdsError>                                         *)
(***************************************************************************)
Ok(v) == [ok |-> TRUE, v |-> v, e |-> "none"]
Err(e) == [ok |-> FALSE, v |-> None, e |-> e]

(***************************************************************************)
(* The duration scan of parse_value: one pass over the characters          *)
(***************************************************************************)
DurStart == [hour |-> 0, have_hour |-> FALSE, min |-> 0, have_min |-> FALSE,
             sec |-> 0, have_sec |-> FALSE, nanos |-> 0, nanos_digits |-> 0]

\* a decoder that takes an M as the minute marker only once the H has been seen
DurCharOrdered(st, c) ==
    IF IsDigit(c) THEN
        IF ~st.have_hour THEN [st EXCEPT !.hour = st.hour * 10 + DigitVal(c)]
        ELSE IF ~st.have_min THEN [st EXCEPT !.min = st.min * 10 + DigitVal(c)]
        ELSE IF ~st.have_sec THEN [st EXCEPT !.sec = st.sec * 10 + DigitVal(c)]
        ELSE [st EXCEPT !.nanos = st.nanos * 10 + DigitVal(c),
                        !.nanos_digits = st.nanos_digits + 1]
    ELSE IF c = "H" THEN [st EXCEPT !.have_hour = TRUE]
    ELSE IF c = "M" THEN [st EXCEPT !.have_min = st.have_hour]
    ELSE IF c = "." THEN [st EXCEPT !.have_sec = TRUE]
    ELSE st

DurChar(st, c) ==
    IF IsDigit(c) THEN
        IF ~st.have_hour THEN [st EXCEPT !.hour = st.hour * 10 + DigitVal(c)]
        ELSE IF ~st.have_min THEN [st EXCEPT !.min = st.min * 10 + DigitVal(c)]
        ELSE IF ~st.have_sec THEN [st EXCEPT !.sec = st.sec * 10 + DigitVal(c)]
        ELSE [st EXCEPT !.nanos = st.nanos * 10 + DigitVal(c),
                        !.nanos_digits = st.nanos_digits + 1]
    ELSE IF c = "H" THEN [st EXCEPT !.have_hour = TRUE]
    ELSE IF c = "M" THEN [st EXCEPT !.have_min = TRUE]
    ELSE IF c = "." THEN [st EXCEPT !.have_sec = TRUE]
    ELSE st

RECURSIVE DurScan(_, _)
DurScan(s, st) == IF s = <<>> THEN st ELSE DurScan(Tail(s), DurChar(st, Head(s)))

\* a decoder that takes the fraction digits as a count of nanoseconds
DurPadNone(st) == st.nanos

\* "unseen nano digits": while nanos_digits < 9 { nanos *= 10 }
DurPad(st) == PadRight(st.nanos, 9 - st.nanos_digits)

\* Duration::from_std(std::time::Duration::new(secs, nanos)); new() carries
\* whole seconds out of nanos
DecodeDuration(s) ==
    LET st    == DurScan(s, DurStart)
        nanos == DurPad(st)
        secs  == st.hour * 3600 + st.min * 60 + st.sec
    IN  VTimeDuration(secs + nanos \div NanosPerSec, nanos % NanosPerSec)

(***************************************************************************)
(* parse_value                                                             *)
(***************************************************************************)
\* a decoder that falls back to an empty currency code
ParseCurrencyDefault(cell_value, cell_currency) ==
    IF IsSome(cell_value) THEN
        LET f == ParseF64(Get(cell_value))
        IN  IF ~f.ok THEN Err("ParseFloat")
            ELSE Ok(Some(VCurrency(IF IsSome(cell_currency) THEN Get(cell_currency) ELSE <<>>,
                                   f.f)))
    ELSE Err("Ods")

ParseCurrency(cell_value, cell_currency) ==
    IF IsSome(cell_value) THEN
        LET f == ParseF64(Get(cell_value))
        IN  IF ~f.ok THEN Err("ParseFloat")
            ELSE IF IsSome(cell_currency)
                 THEN Ok(Some(VCurrency(Get(cell_currency), f.f)))
                 ELSE Err("Ods")
    ELSE Err("Ods")

ParsePercentage(cell_value) ==
    IF IsSome(cell_value) THEN
        LET f == ParseF64(Get(cell_value))
        IN  IF f.ok THEN Ok(Some(VPercentage(f.f))) ELSE Err("ParseFloat")
    ELSE Err("Ods")

ParseNumber(cell_value) ==
    IF IsSome(cell_value) THEN
        LET f == ParseF64(Get(cell_value))
        IN  IF f.ok THEN Ok(Some(VNumber(f.f))) ELSE Err("ParseFloat")
    ELSE Err("Ods")

\* a decoder that probes the date form first and the timestamp form second
ParseDateTimeValueProbe(cell_value) ==
    IF IsSome(cell_value) THEN
        LET d  == ParseDate(Get(cell_value))
            dt == IF d.ok THEN d ELSE ParseDateTime(Get(cell_value))
        IN  IF dt.ok THEN Ok(Some(VDateTime(dt.dt))) ELSE Err("Chrono")
    ELSE Err("Ods")

ParseDateTimeValue(cell_value) ==
    IF IsSome(cell_value) THEN
        LET dt == IF Len(Get(cell_value)) = 10
                  THEN ParseDate(Get(cell_value))
                  ELSE ParseDateTime(Get(cell_value))
        IN  IF dt.ok THEN Ok(Some(VDateTime(dt.dt))) ELSE Err("Chrono")
    ELSE Err("Ods")

ParseTimeDuration(cell_value) ==
    IF IsSome(cell_value) THEN Ok(Some(DecodeDuration(Get(cell_value))))
    ELSE Err("Ods")

\* a decoder that takes a missing boolean value for false
ParseBooleanDefault(cell_value) ==
    Ok(Some(VBoolean(IsSome(cell_value) /\ Get(cell_value) = <<"true">>)))

ParseBoolean(cell_value) ==
    IF IsSome(cell_value) THEN Ok(Some(VBoolean(Get(cell_value) = <<"true">>)))
    ELSE Err("Ods")

ParseText(cell_content) ==
    Ok(IF IsSome(cell_content) THEN Some(VText(Get(cell_content))) ELSE None)

parse_value(value_type, cell_value, cell_content, cell_currency) ==
    IF IsSome(value_type) THEN
        CASE Get(value_type) = "Text" -> ParseText(cell_content)
          [] Get(value_type) = "Number" -> ParseNumber(cell_value)
          [] Get(value_type) = "DateTime" -> ParseDateTimeValue(cell_value)
          [] Get(value_type) = "TimeDuration" -> ParseTimeDuration(cell_value)
          [] Get(value_type) = "Boolean" -> ParseBoolean(cell_value)
          [] Get(value_type) = "Currency" -> ParseCurrency(cell_value, cell_currency)
          [] Get(value_type) = "Percentage" -> ParsePercentage(cell_value)
    ELSE Err("Ods")

\* a decoder that takes every unknown type marker for string
decode_value_type_lenient(v) ==
    CASE v = <<"float">> -> [ok |-> TRUE, t |-> "Number"]
      [] v = <<"percentage">> -> [ok |-> TRUE, t |-> "Percentage"]
      [] v = <<"date">> -> [ok |-> TRUE, t |-> "DateTime"]
      [] v = <<"time">> -> [ok |-> TRUE, t |-> "TimeDuration"]
      [] v = <<"boolean">> -> [ok |-> TRUE, t |-> "Boolean"]
      [] v = <<"currency">> -> [ok |-> TRUE, t |-> "Currency"]
      [] OTHER -> [ok |-> TRUE, t |-> "Text"]

\* decode_value_type: [ok, t]
decode_value_type(v) ==
    CASE v = <<"string">> -> [ok |-> TRUE, t |-> "Text"]
      [] v = <<"float">> -> [ok |-> TRUE, t |-> "Number"]
      [] v = <<"percentage">> -> [ok |-> TRUE, t |-> "Percentage"]
      [] v = <<"date">> -> [ok |-> TRUE, t |-> "DateTime"]
      [] v = <<"time">> -> [ok |-> TRUE, t |-> "TimeDuration"]
      [] v = <<"boolean">> -> [ok |-> TRUE, t |-> "Boolean"]
      [] v = <<"currency">> -> [ok |-> TRUE, t |-> "Currency"]
      [] OTHER -> [ok |-> FALSE, t |-> "Text"]

(***************************************************************************)
(* Grid model: SCell, SColumn, SRow, Sheet, WorkBook.  The maps are        *)
(* functions on finite key sets; BTreeMap iteration is key order.          *)
(***************************************************************************)
SCell(value, style, formula) == [value |-> value, style |-> style, formula |-> formula]
SColumn(style, def_cell_style) == [style |-> style, def_cell_style |-> def_cell_style]
SRow(style) == [style |-> style]

EmptyMap == [k \in {} |-> None]
MapPut(m, k, v) == [x \in (DOMAIN m) \cup {k} |-> IF x = k THEN v ELSE m[x]]

\* Sheet::new()
NewSheet == [name |-> <<>>, style |-> None, columns |-> EmptyMap,
             rows |-> EmptyMap, data |-> EmptyMap]

\* Sheet::add_cell
add_cell(sh, row, col, cell) == [sh EXCEPT !.data = MapPut(sh.data, <<row, col>>, cell)]

\* Sheet::set_row_style
set_row_style(sh, r, style) == [sh EXCEPT !.rows = MapPut(sh.rows, r, SRow(Some(style)))]

\* a reader that styles the first row of a repeated row only
SetRowStylesFirst(sh, r, n, style) == set_row_style(sh, r, style)

RECURSIVE SetRowStyles(_, _, _, _)
SetRowStyles(sh, r, n, style) ==
    IF n <= 0 THEN sh ELSE SetRowStyles(set_row_style(sh, r, style), r + 1, n - 1, style)

\* order of (row, col) keys
KeyLess(a, b) == a[1] < b[1] \/ (a[1] = b[1] /\ a[2] < b[2])
MinKey(S) == CHOOSE k \in S : \A o \in S : o = k \/ KeyLess(k, o)
RECURSIVE SortedKeys(_)
SortedKeys(S) == IF S = {} THEN <<>> ELSE <<MinKey(S)>> \o SortedKeys(S \ {MinKey(S)})

MinNat(S) == CHOOSE k \in S : \A o \in S : k <= o
MaxNat(S) == CHOOSE k \in S : \A o \in S : k >= o
RECURSIVE SortedNats(_)
SortedNats(S) == IF S = {} THEN <<>> ELSE <<MinNat(S)>> \o SortedNats(S \ {MinNat(S)})

\* Sheet::used_grid_size: (max row + 1, max col + 1) over the cell keys
used_grid_size(sh) ==
    LET K == DOMAIN sh.data
    IN  <<MaxNat({0} \cup {k[1] : k \in K}) + 1, MaxNat({0} \cup {k[2] : k \in K}) + 1>>

\* WorkBook::def_style and WorkBook::find_value_style
def_style(bk, value_type) == bk.def_styles[value_type]
find_value_style(bk, style_name) == None

ValueTypes == {"Text", "Number", "Percentage", "Currency", "Boolean",
               "DateTime", "TimeDuration"}
NoDefStyles == [t \in ValueTypes |-> None]

(***************************************************************************)
(* XML events (quick_xml::events::Event)                                   *)
(***************************************************************************)
Ev(k, name, attrs, text) == [k |-> k, name |-> name, attrs |-> attrs, text |-> text]
start(tag) == Ev("Start", tag, <<>>, <<>>)
start_a(tag, attrs) == Ev("Start", tag, attrs, <<>>)
end(tag) == Ev("End", tag, <<>>, <<>>)
empty(tag) == Ev("Empty", tag, <<>>, <<>>)
empty_a(tag, attrs) == Ev("Empty", tag, attrs, <<>>)
text(t) == Ev("Text", "", <<>>, t)
EvEof == Ev("Eof", "", <<>>, <<>>)
EvDecl == Ev("Decl", "", <<>>, <<>>)

(***************************************************************************)
(* Structural serializer                                                   *)
(***************************************************************************)
\* a gap filler that counts the occupied cell as well
write_empty_cells_full(forward_dc) ==
    <<empty_a("table:table-cell",
              <<<<"table:number-columns-repeated", IntToStr(forward_dc)>>>>)>>

write_empty_cells(forward_dc) ==
    <<empty_a("table:table-cell",
              <<<<"table:number-columns-repeated", IntToStr(forward_dc - 1)>>>>)>>

write_start_current_row(sh, cur_row, backward_dc) ==
    LET attr == IF cur_row \in DOMAIN sh.rows /\ IsSome(sh.rows[cur_row].style)
                THEN <<<<"table:style-name", Get(sh.rows[cur_row].style)>>>>
                ELSE <<>>
    IN  <<start_a("table:table-row", attr)>>
        \o (IF backward_dc > 0
            THEN <<empty_a("table:table-cell",
                           <<<<"table:number-columns-repeated", IntToStr(backward_dc)>>>>)>>
            ELSE <<>>)

\* a serializer that writes every empty row of a gap as a row of its own
write_empty_rows_each(first_cell, backward_dr, max_cell) ==
    LET empty_count == IF first_cell THEN backward_dr ELSE backward_dr - 1
    IN  [i \in 1..(3 * empty_count) |->
            IF i % 3 = 1 THEN start("table:table-row")
            ELSE IF i % 3 = 2
            THEN empty_a("table:table-cell",
                         <<<<"table:number-columns-repeated", IntToStr(max_cell[2])>>>>)
            ELSE end("table:table-row")]

write_empty_rows_before(first_cell, backward_dr, max_cell) ==
    LET empty_count == IF first_cell THEN backward_dr ELSE backward_dr - 1
        attr == IF empty_count > 1
                THEN <<<<"table:number-rows-repeated", IntToStr(empty_count)>>>>
                ELSE <<>>
    IN  <<start_a("table:table-row", attr),
          empty_a("table:table-cell",
                  <<<<"table:number-columns-repeated", IntToStr(max_cell[2])>>>>),
          end("table:table-row")>>

\* a column writer that lets every entry reach to the used extent
write_table_column_wide(sh, max_cell, c) ==
    LET dc     == max_cell[2] - c
        column == sh.columns[c]
    IN  empty_a("table:table-column",
            (IF dc > 1 THEN <<<<"table:number-columns-repeated", IntToStr(dc)>>>> ELSE <<>>)
            \o (IF IsSome(column.style)
                THEN <<<<"table:style-name", Get(column.style)>>>> ELSE <<>>)
            \o (IF IsSome(column.def_cell_style)
                THEN <<<<"table:default-cell-style-name", Get(column.def_cell_style)>>>>
                ELSE <<>>))

write_table_column(sh, max_cell, c) ==
    LET later  == {k \in DOMAIN sh.columns : k >= c + 1}
        next_c == IF later # {} THEN MinNat(later) ELSE max_cell[2]
        dc     == next_c - c
        column == sh.columns[c]
    IN  empty_a("table:table-column",
            (IF dc > 1 THEN <<<<"table:number-columns-repeated", IntToStr(dc)>>>> ELSE <<>>)
            \o (IF IsSome(column.style)
                THEN <<<<"table:style-name", Get(column.style)>>>> ELSE <<>>)
            \o (IF IsSome(column.def_cell_style)
                THEN <<<<"table:default-cell-style-name", Get(column.def_cell_style)>>>>
                ELSE <<>>))

write_table_columns(sh, max_cell) ==
    LET ks == SortedNats(DOMAIN sh.columns)
    IN  [i \in 1..Len(ks) |-> write_table_column(sh, max_cell, ks[i])]

\* the office:time-value write_cell builds for a duration
EncodeDuration(d) ==
    <<"P", "T">> \o IntToStr(NumHours(d)) \o <<"H">>
    \o IntToStr(TRem(NumMinutes(d), 60)) \o <<"M">>
    \o IntToStr(TRem(NumSeconds(d), 60)) \o <<".">>
    \o IntToStr(TRem(NumMilliseconds(d), 1000)) \o <<"S">>

\* the typed attributes and the fallback text of write_cell's match on cell.value
ValueAttrs(v) ==
    CASE v.kind = "Text" -> <<<<"office:value-type", <<"string">>>>>>
      [] v.kind = "DateTime" ->
            <<<<"office:value-type", <<"date">>>>,
              <<"office:date-value", FormatDateTime(v.dt)>>>>
      [] v.kind = "TimeDuration" ->
            <<<<"office:value-type", <<"time">>>>,
              <<"office:time-value", EncodeDuration(v)>>>>
      [] v.kind = "Boolean" ->
            <<<<"office:value-type", <<"boolean">>>>,
              <<"office:boolean-value", IF v.b THEN <<"true">> ELSE <<"false">>>>>>
      [] v.kind = "Currency" ->
            <<<<"office:value-type", <<"currency">>>>,
              <<"office:currency", v.cur>>,
              <<"office:value", F64ToString(v.amt)>>>>
      [] v.kind = "Number" ->
            <<<<"office:value-type", <<"float">>>>,
              <<"office:value", F64ToString(v.f)>>>>
      [] v.kind = "Percentage" ->
            <<<<"office:value-type", <<"percentage">>>>,
              <<"office:value", F64ToString(v.pct) \o <<"%">>>>>>

ValueContent(v) ==
    CASE v.kind = "Text" -> v.s
      [] v.kind = "DateTime" ->
            PadNat(v.dt.d, 2) \o <<".">> \o PadNat(v.dt.mo, 2) \o <<".">> \o PadNat(v.dt.y, 4)
      [] v.kind = "TimeDuration" ->
            IntToStr(NumHours(v)) \o <<":">> \o IntToStr(TRem(NumMinutes(v), 60))
            \o <<":">> \o IntToStr(TRem(NumSeconds(v), 60))
            \o <<".">> \o IntToStr(TRem(NumMilliseconds(v), 1000))
      [] v.kind = "Boolean" -> IF v.b THEN <<"true">> ELSE <<"false">>
      [] v.kind = "Currency" -> v.cur \o <<" ">> \o F64ToString(v.amt)
      [] v.kind = "Number" -> F64ToString(v.f)
      [] v.kind = "Percentage" -> F64ToString(v.pct * 100)

\* a serializer that marks a cell without value as a string cell
write_cell_typed(bk, cell) ==
    IF IsSome(cell.value)
    THEN <<start_a("table:table-cell", ValueAttrs(Get(cell.value))), start("text:p"),
           text(ValueContent(Get(cell.value))), end("text:p"), end("table:table-cell")>>
    ELSE <<empty_a("table:table-cell", <<<<"office:value-type", <<"string">>>>>>)>>

\* a serializer that writes a cell without value as an element with content
write_cell_open(bk, cell) ==
    IF IsSome(cell.value)
    THEN <<start_a("table:table-cell", ValueAttrs(Get(cell.value))), start("text:p"),
           text(ValueContent(Get(cell.value))), end("text:p"), end("table:table-cell")>>
    ELSE <<start_a("table:table-cell", <<<<"office:value-type", <<"string">>>>>>),
           end("table:table-cell")>>

write_cell(bk, cell) ==
    LET attr ==
            (IF IsSome(cell.formula)
             THEN <<<<"table:formula", Get(cell.formula)>>>> ELSE <<>>)
            \o (IF IsSome(cell.style) THEN <<<<"table:style-name", Get(cell.style)>>>>
                ELSE IF IsSome(cell.value)
                        /\ IsSome(def_style(bk, Get(cell.value).kind))
                THEN <<<<"table:style-name", Get(def_style(bk, Get(cell.value).kind))>>>>
                ELSE <<>>)
            \o (IF IsSome(cell.value) THEN ValueAttrs(Get(cell.value)) ELSE <<>>)
    IN  IF IsSome(cell.value)
        THEN <<start_a("table:table-cell", attr), start("text:p"),
               text(ValueContent(Get(cell.value))), end("text:p"),
               end("table:table-cell")>>
        ELSE <<empty_a("table:table-cell", attr)>>

\* a loop body that leaves the row open when the row index advances
WriteSheetIterOpen(bk, sh, st, i) ==
    LET keys     == SortedKeys(DOMAIN sh.data)
        max_cell == used_grid_size(sh)
        cur_row  == keys[i][1]
        cur_col  == keys[i][2]
        nxt      == IF i < Len(keys) THEN keys[i + 1] ELSE max_cell
        forward_dr == nxt[1] - cur_row
        forward_dc == IF forward_dr >= 1 THEN max_cell[2] - cur_col
                      ELSE nxt[2] - cur_col
        backward_dr == cur_row - st.last_r
        backward_dc == IF backward_dr >= 1 THEN cur_col ELSE cur_col - st.last_c
    IN  (IF backward_dr > 1
         THEN write_empty_rows_before(st.first_cell, backward_dr, max_cell) ELSE <<>>)
        \o (IF backward_dr > 0 \/ st.first_cell
            THEN write_start_current_row(sh, cur_row, backward_dc) ELSE <<>>)
        \o write_cell(bk, sh.data[keys[i]])
        \o (IF forward_dc > 1 THEN write_empty_cells(forward_dc) ELSE <<>>)

\* one iteration of write_sheet's loop over sheet.data, at the i-th key;
\* st holds first_cell, last_r, last_c
WriteSheetIter(bk, sh, st, i) ==
    LET keys     == SortedKeys(DOMAIN sh.data)
        max_cell == used_grid_size(sh)
        cur_row  == keys[i][1]
        cur_col  == keys[i][2]
        nxt      == IF i < Len(keys) THEN keys[i + 1] ELSE max_cell
        forward_dr == nxt[1] - cur_row
        forward_dc == IF forward_dr >= 1 THEN max_cell[2] - cur_col
                      ELSE nxt[2] - cur_col
        backward_dr == cur_row - st.last_r
        backward_dc == IF backward_dr >= 1 THEN cur_col ELSE cur_col - st.last_c
    IN  (IF backward_dr > 0 /\ ~st.first_cell THEN <<end("table:table-row")>> ELSE <<>>)
        \o (IF backward_dr > 1
            THEN write_empty_rows_before(st.first_cell, backward_dr, max_cell) ELSE <<>>)
        \o (IF backward_dr > 0 \/ st.first_cell
            THEN write_start_current_row(sh, cur_row, backward_dc) ELSE <<>>)
        \o write_cell(bk, sh.data[keys[i]])
        \o (IF forward_dc > 1 THEN write_empty_cells(forward_dc) ELSE <<>>)

\* the table:table start tag and the column declarations of write_sheet
WriteSheetHead(sh) ==
    <<start_a("table:table",
              <<<<"table:name", sh.name>>>>
              \o (IF IsSome(sh.style)
                  THEN <<<<"table:style-name", Get(sh.style)>>>> ELSE <<>>))>>
    \o write_table_columns(sh, used_grid_size(sh))

\* one attribute
Attr(k, v) == <<<<k, v>>>>

(***************************************************************************)
(* Fonts, styles and value formats of origin Content.  A workbook holds    *)
(* the names of its fonts and styles in key order and its formats as       *)
(* [name, v_type, parts], a part being [ftype, prp, content].              *)
(***************************************************************************)
FormatTypes ==
    {"Boolean", "Number", "Scientific", "CurrencySymbol", "Day", "Month", "Year", "Era",
     "DayOfWeek", "WeekOfYear", "Quarter", "Hours", "Minutes", "Seconds", "Fraction",
     "AmPm", "EmbeddedText", "Text", "TextContent", "StyleText", "StyleMap"}

FormatPart(ftype, prp, content) == [ftype |-> ftype, prp |-> prp, content |-> content]
NewFormat == [name |-> <<>>, v_type |-> "Text", parts |-> <<>>]

\* write_value_styles: the element of a format of each value type
ValueStyleTag(v_type) ==
    CASE v_type = "Boolean" -> "number:boolean-style"
      [] v_type = "Number" -> "number:number-style"
      [] v_type = "Text" -> "number:text-style"
      [] v_type = "TimeDuration" -> "number:time-style"
      [] v_type = "Percentage" -> "number:percentage-style"
      [] v_type = "Currency" -> "number:currency-style"
      [] v_type = "DateTime" -> "number:date-style"

\* write_value_styles: the element of a part of each kind
PartTag(ftype) ==
    CASE ftype = "Boolean" -> "number:boolean"
      [] ftype = "Number" -> "number:number"
      [] ftype = "Scientific" -> "number:scientific-number"
      [] ftype = "CurrencySymbol" -> "number:currency-symbol"
      [] ftype = "Day" -> "number:day"
      [] ftype = "Month" -> "number:month"
      [] ftype = "Year" -> "number:year"
      [] ftype = "Era" -> "number:era"
      [] ftype = "DayOfWeek" -> "number:day-of-week"
      [] ftype = "WeekOfYear" -> "number:week-of-year"
      [] ftype = "Quarter" -> "number:quarter"
      [] ftype = "Hours" -> "number:hours"
      [] ftype = "Minutes" -> "number:minutes"
      [] ftype = "Seconds" -> "number:seconds"
      [] ftype = "Fraction" -> "number:fraction"
      [] ftype = "AmPm" -> "number:am-pm"
      [] ftype = "EmbeddedText" -> "number:embedded-text"
      [] ftype = "Text" -> "number:text"
      [] ftype = "TextContent" -> "number:text-content"
      [] ftype = "StyleText" -> "style:text"
      [] ftype = "StyleMap" -> "style:map"

WritePart(part) ==
    IF part.ftype \in {"Text", "CurrencySymbol"}
    THEN <<start_a(PartTag(part.ftype), part.prp)>>
         \o (IF IsSome(part.content) THEN <<text(Get(part.content))>> ELSE <<>>)
         \o <<end(PartTag(part.ftype))>>
    ELSE <<empty_a(PartTag(part.ftype), part.prp)>>

RECURSIVE WriteParts(_)
WriteParts(parts) ==
    IF parts = <<>> THEN <<>> ELSE WritePart(Head(parts)) \o WriteParts(Tail(parts))

write_value_styles(style) ==
    <<start_a(ValueStyleTag(style.v_type), Attr("style:name", style.name))>>
    \o WriteParts(style.parts)
    \o <<end(ValueStyleTag(style.v_type))>>

\* write_font_decl: one start tag per font
RECURSIVE write_font_decl(_)
write_font_decl(fonts) ==
    IF fonts = <<>> THEN <<>>
    ELSE <<start_a("style:style", Attr("style:name", Head(fonts)))>>
         \o write_font_decl(Tail(fonts))

\* a writer that declares a font as an empty style:font-face element
RECURSIVE write_font_face(_)
write_font_face(fonts) ==
    IF fonts = <<>> THEN <<>>
    ELSE <<empty_a("style:font-face", Attr("style:name", Head(fonts)))>>
         \o write_font_face(Tail(fonts))

\* write_styles: a style without properties
RECURSIVE write_styles(_)
write_styles(styles) ==
    IF styles = <<>> THEN <<>>
    ELSE <<start_a("style:style", Attr("style:name", Head(styles))
                                  \o Attr("style:family", <<"table-cell">>)),
           end("style:style")>>
         \o write_styles(Tail(styles))

RECURSIVE write_all_value_styles(_)
write_all_value_styles(formats) ==
    IF formats = <<>> THEN <<>>
    ELSE write_value_styles(Head(formats)) \o write_all_value_styles(Tail(formats))

\* what write_ods_content emits before and after the sheets
ContentHead(bk) ==
    <<EvDecl, start("office:document-content"), empty("office:scripts"),
      start("office:font-face-decls")>>
    \o write_font_decl(bk.fonts)
    \o <<end("office:font-face-decls"), start("office:automatic-styles")>>
    \o write_styles(bk.styles)
    \o write_all_value_styles(bk.formats)
    \o <<end("office:automatic-styles"), start("office:body"), start("office:spreadsheet")>>
ContentTail ==
    <<end("office:spreadsheet"), end("office:body"), end("office:document-content")>>

(***************************************************************************)
(* Serializer actions: write_ods_content and write_sheet, one step per     *)
(* sheet head, per cell of the loop over sheet.data, and per sheet end.    *)
(* The events go to the document the parser later reads.                   *)
(***************************************************************************)
Emit(evs) == xml' = [xml EXCEPT !.doc = xml.doc \o evs]

WriteStart == [first_cell |-> TRUE, last_r |-> 0, last_c |-> 0, i |-> 1]

WriteContentBegin ==
    /\ wpc = "idle"
    /\ UNCHANGED otherVars
    /\ Emit(ContentHead(book_in))
    /\ wpc' = IF Len(book_in.sheets) > 0 THEN "sheet" ELSE "tail"
    /\ UNCHANGED <<book_in, wsheet, wstate, pc, book, sheet, cur, pend, err>>

WriteSheetBegin ==
    /\ wpc = "sheet"
    /\ UNCHANGED otherVars
    /\ Emit(WriteSheetHead(book_in.sheets[wsheet]))
    /\ wstate' = WriteStart
    /\ wpc' = "cells"
    /\ UNCHANGED <<book_in, wsheet, pc, book, sheet, cur, pend, err>>

WriteSheetCell ==
    /\ wpc = "cells"
    /\ UNCHANGED otherVars
    /\ LET sh   == book_in.sheets[wsheet]
           keys == SortedKeys(DOMAIN sh.data)
       IN  /\ wstate.i <= Len(keys)
           /\ Emit(WriteSheetIter(book_in, sh, wstate, wstate.i))
           /\ wstate' = [first_cell |-> FALSE, last_r |-> keys[wstate.i][1],
                         last_c |-> keys[wstate.i][2], i |-> wstate.i + 1]
    /\ UNCHANGED <<book_in, wpc, wsheet, pc, book, sheet, cur, pend, err>>

WriteSheetEnd ==
    /\ wpc = "cells"
    /\ UNCHANGED otherVars
    /\ wstate.i > Cardinality(DOMAIN book_in.sheets[wsheet].data)
    /\ Emit((IF ~wstate.first_cell THEN <<end("table:table-row")>> ELSE <<>>)
            \o <<end("table:table")>>)
    /\ wsheet' = wsheet + 1
    /\ wpc' = IF wsheet < Len(book_in.sheets) THEN "sheet" ELSE "tail"
    /\ UNCHANGED <<book_in, wstate, pc, book, sheet, cur, pend, err>>

WriteContentEnd ==
    /\ wpc = "tail"
    /\ UNCHANGED otherVars
    /\ Emit(ContentTail)
    /\ wpc' = "done"
    /\ UNCHANGED <<book_in, wsheet, wstate, pc, book, sheet, cur, pend, err>>

(***************************************************************************)
(* Structural parser: the attribute scans of read_table, read_table_row,   *)
(* read_table_column, read_table_cell and read_empty_table_cell            *)
(***************************************************************************)
RECURSIVE read_table(_, _)
read_table(attrs, sh) ==
    IF attrs = <<>> THEN sh
    ELSE LET a == Head(attrs)
         IN  read_table(Tail(attrs),
                 IF a[1] = "table:name" THEN [sh EXCEPT !.name = a[2]]
                 ELSE IF a[1] = "table:style-name" THEN [sh EXCEPT !.style = Some(a[2])]
                 ELSE sh)

\* read_table_row: st is [ok, e, row_repeat, row_style]
RECURSIVE RowAttrs(_, _)
RowAttrs(attrs, st) ==
    IF attrs = <<>> \/ ~st.ok THEN st
    ELSE LET a == Head(attrs)
             n == ParseUsize(a[2])
         IN  RowAttrs(Tail(attrs),
                 IF a[1] = "table:number-rows-repeated"
                 THEN (IF n.ok THEN [st EXCEPT !.row_repeat = n.n]
                       ELSE [st EXCEPT !.ok = FALSE, !.e = "ParseInt"])
                 ELSE IF a[1] = "table:style-name" THEN [st EXCEPT !.row_style = Some(a[2])]
                 ELSE st)

read_table_row(attrs, row_style) ==
    RowAttrs(attrs, [ok |-> TRUE, e |-> "none", row_repeat |-> 1, row_style |-> row_style])

\* read_table_column: st is [ok, e, column, repeat]
RECURSIVE ColumnAttrs(_, _)
ColumnAttrs(attrs, st) ==
    IF attrs = <<>> \/ ~st.ok THEN st
    ELSE LET a == Head(attrs)
             n == ParseUsize(a[2])
         IN  ColumnAttrs(Tail(attrs),
                 IF a[1] = "table:style-name" THEN [st EXCEPT !.column.style = Some(a[2])]
                 ELSE IF a[1] = "table:number-columns-repeated"
                 THEN (IF n.ok THEN [st EXCEPT !.repeat = n.n]
                       ELSE [st EXCEPT !.ok = FALSE, !.e = "ParseInt"])
                 ELSE IF a[1] = "table:default-cell-style-name"
                 THEN [st EXCEPT !.column.def_cell_style = Some(a[2])]
                 ELSE st)

\* while repeat > 0 { sheet.columns.insert(tcol, column.clone()); tcol += 1; ... }
RECURSIVE InsertColumns(_, _, _, _)
InsertColumns(sh, tcol, column, repeat) ==
    IF repeat <= 0 THEN sh
    ELSE InsertColumns([sh EXCEPT !.columns = MapPut(sh.columns, tcol, column)],
                       tcol + 1, column, repeat - 1)

\* result: [ok, e, tcol, sheet]
read_table_column(attrs, tcol, sh) ==
    LET st == ColumnAttrs(attrs, [ok |-> TRUE, e |-> "none",
                                  column |-> SColumn(None, None), repeat |-> 1])
    IN  IF st.ok
        THEN [ok |-> TRUE, e |-> "none", tcol |-> tcol + st.repeat,
              sheet |-> InsertColumns(sh, tcol, st.column, st.repeat)]
        ELSE [ok |-> FALSE, e |-> st.e, tcol |-> tcol, sheet |-> sh]

\* locals of read_table_cell
NoPend == [cell |-> SCell(None, None, None), cell_repeat |-> 1, value_type |-> None,
           cell_value |-> None, cell_content |-> None, cell_currency |-> None]

\* the attribute scan of read_table_cell: st is [ok, e, p], p the locals
RECURSIVE CellAttrs(_, _)
CellAttrs(attrs, st) ==
    IF attrs = <<>> \/ ~st.ok THEN st
    ELSE LET a == Head(attrs)
             n == ParseUsize(a[2])
             t == decode_value_type(a[2])
         IN  CellAttrs(Tail(attrs),
                 IF a[1] = "table:number-columns-repeated"
                 THEN (IF n.ok THEN [st EXCEPT !.p.cell_repeat = n.n]
                       ELSE [st EXCEPT !.ok = FALSE, !.e = "ParseInt"])
                 ELSE IF a[1] = "office:value-type"
                 THEN (IF t.ok THEN [st EXCEPT !.p.value_type = Some(t.t)]
                       ELSE [st EXCEPT !.ok = FALSE, !.e = "Ods"])
                 ELSE IF a[1] \in {"office:date-value", "office:time-value",
                                   "office:value", "office:boolean-value"}
                 THEN [st EXCEPT !.p.cell_value = Some(a[2])]
                 ELSE IF a[1] = "office:currency" THEN [st EXCEPT !.p.cell_currency = Some(a[2])]
                 ELSE IF a[1] = "table:formula" THEN [st EXCEPT !.p.cell.formula = Some(a[2])]
                 ELSE IF a[1] = "table:style-name" THEN [st EXCEPT !.p.cell.style = Some(a[2])]
                 ELSE st)

\* the End(table:table-cell) branch of read_table_cell, after parse_value:
\* cell_repeat - 1 clones, then the cell itself
\* a reader that stores a repeated cell once, at the last of its columns
AddCellsLast(sh, row, col, cell, cell_repeat) ==
    add_cell(sh, row, col + Max2(cell_repeat, 1) - 1, cell)

RECURSIVE AddCells(_, _, _, _, _)
AddCells(sh, row, col, cell, cell_repeat) ==
    IF cell_repeat > 1
    THEN AddCells(add_cell(sh, row, col, cell), row, col + 1, cell, cell_repeat - 1)
    ELSE add_cell(sh, row, col, cell)

\* read_empty_table_cell: [ok, e, col]
RECURSIVE EmptyCellAttrs(_, _)
EmptyCellAttrs(attrs, st) ==
    IF attrs = <<>> \/ ~st.ok THEN st
    ELSE LET a == Head(attrs)
             n == ParseUsize(a[2])
         IN  EmptyCellAttrs(Tail(attrs),
                 IF a[1] = "table:number-columns-repeated"
                 THEN (IF n.ok THEN [st EXCEPT !.col = st.col + n.n]
                       ELSE [st EXCEPT !.ok = FALSE, !.e = "ParseInt"])
                 ELSE st)

read_empty_table_cell(attrs, col) ==
    EmptyCellAttrs(attrs, [ok |-> TRUE, e |-> "none",
                           col |-> IF Len(attrs) = 0 THEN col + 1 ELSE col])

(***************************************************************************)
(* The XML event source (quick_xml::Reader::read_event).                   *)
(* mode "doc": the events of the document the serializer wrote, then Eof.  *)
(* mode "gen": any well nested stream over the alphabet xml.alpha, cut off *)
(* by Eof at any point; xml.doc then holds the events delivered so far.    *)
(* After Eof the reader keeps answering Eof.  xml.pos is the index of the  *)
(* next event, xml.open the stack of the start events of the open          *)
(* elements, xml.seen counts what has been delivered.                      *)
(***************************************************************************)
HasAttr(attrs, key) == \E i \in 1..Len(attrs) : attrs[i][1] = key
AttrOf(attrs, key) == attrs[CHOOSE i \in 1..Len(attrs) : attrs[i][1] = key][2]

RepeatOf(attrs, key) ==
    IF HasAttr(attrs, key) /\ ParseUsize(AttrOf(attrs, key)).ok
    THEN ParseUsize(AttrOf(attrs, key)).n
    ELSE 1

Top(stack) == IF stack = <<>> THEN "" ELSE stack[Len(stack)].name

NoneSeen == [tables |-> 0, slots |-> 0, colsums |-> <<>>]

See(seen, ev) ==
    IF ev.k = "Start" /\ ev.name = "table:table"
    THEN [seen EXCEPT !.tables = @ + 1, !.colsums = Append(@, 0)]
    ELSE IF ev.k = "Start" /\ ev.name = "table:table-cell"
    THEN [seen EXCEPT !.slots = @ + Max2(1, RepeatOf(ev.attrs, "table:number-columns-repeated"))]
    ELSE IF ev.k = "Empty" /\ ev.name = "table:table-column" /\ seen.colsums # <<>>
    THEN [seen EXCEPT !.colsums[Len(seen.colsums)] =
                          @ + RepeatOf(ev.attrs, "table:number-columns-repeated")]
    ELSE seen

Advance(x, ev) ==
    IF ev.k = "Eof" THEN [x EXCEPT !.eof = TRUE]
    ELSE [x EXCEPT !.pos = @ + 1,
                   !.doc = IF x.mode = "gen" THEN Append(@, ev) ELSE @,
                   !.open = IF ev.k = "Start" THEN Append(@, ev)
                            ELSE IF ev.k = "End" THEN SubSeq(@, 1, Len(@) - 1)
                            ELSE @,
                   !.seen = See(@, ev)]

DocSource == [mode |-> "doc", alpha |-> "doc", doc |-> <<>>, pos |-> 1,
              open |-> <<>>, eof |-> FALSE, seen |-> NoneSeen]

GenSource(alpha) == [mode |-> "gen", alpha |-> alpha, doc |-> <<>>, pos |-> 1,
                     open |-> <<>>, eof |-> FALSE, seen |-> NoneSeen]

(***************************************************************************)
(* Bounds of the model                                                     *)
(***************************************************************************)
MaxEvents == 7      \* events a generated stream delivers before its Eof
MaxRow == 3         \* highest row index of a written sheet
MaxCol == 2         \* highest column index of a written sheet
MaxCells == 2       \* occupied cells of a written sheet

ColumnEvents ==
    {empty_a("table:table-column", rep \o sty) :
        rep \in {<<>>, Attr("table:number-columns-repeated", <<"2">>)},
        sty \in {<<>>, Attr("table:style-name", <<"co1">>)}}
    \cup {empty_a("table:table-column", Attr("table:number-columns-repeated", <<"x">>))}

RowStarts ==
    {start_a("table:table-row", rep \o sty) :
        rep \in {<<>>, Attr("table:number-rows-repeated", <<"2">>)},
        sty \in {<<>>, Attr("table:style-name", <<"ro1">>)}}

EmptyCells ==
    {empty_a("table:table-cell", rep \o sty) :
        rep \in {<<>>, Attr("table:number-columns-repeated", <<"2">>)},
        sty \in {<<>>, Attr("table:style-name", <<"ce1">>)}}

FloatOne == Attr("office:value-type", <<"float">>) \o Attr("office:value", <<"1">>)

CellStarts ==
    {start_a("table:table-cell", FloatOne),
     start_a("table:table-cell", Attr("table:number-columns-repeated", <<"2">>) \o FloatOne),
     start_a("table:table-cell", Attr("table:style-name", <<"ce1">>)
                                 \o Attr("office:value-type", <<"string">>)),
     start_a("table:table-cell", Attr("table:number-columns-repeated", <<"2">>)
                                 \o Attr("table:style-name", <<"ce1">>))}

\* the cells of alphabet "cell": one typed cell with any of these attributes
DurationStrings ==
    {<<"P", "T">> \o h \o <<"H">> \o m \o <<"M">> \o sc \o f \o <<"S">> :
        h \in {<<"0">>, <<"2">>, <<"1", "2">>},
        m \in {<<"1", "5">>, <<"7">>},
        sc \in {<<"3", "0">>, <<"0">>},
        f \in {<<>>, <<".", "5">>, <<".", "0", "5">>,
               <<".", "5", "0", "0", "0", "0", "0", "0", "0", "0">>,
               <<".", "1", "2", "3", "4", "5", "6", "7", "8", "9">>}}

\* durations that leave markers out, and one with a month before the time part
PartialDurationStrings ==
    {<<"P", "T", "3", "0", "M">>,
     <<"P", "T", "4", "5", "S">>,
     <<"P", "T", "5", "M", "3", "0", "S">>,
     <<"P", "T", "2", "H", "3", "0", "S">>,
     <<"P", "T", "7", ".", "5", "S">>,
     <<"P", "1", "M", "T", "5", "H", "7", "S">>}

ValueStrings == {<<"1">>, <<"1", ".", "5">>, <<"-", "2">>, <<"1", "%">>, <<"x">>, <<>>}

\* cells that declare a type other than string and carry no value attribute
NoValueCells ==
    {start_a("table:table-cell", Attr("office:value-type", <<t>>) \o c) :
        t \in {"float", "percentage", "currency", "boolean", "date", "time"},
        c \in {<<>>, Attr("office:currency", <<"EUR">>), Attr("table:style-name", <<"ce1">>)}}

\* cells without office:value-type, and cells whose office:value-type is unknown
UntypedCells ==
    {start_a("table:table-cell", r \o a) :
        r \in {<<>>, Attr("table:number-columns-repeated", <<"2">>),
               Attr("table:number-columns-repeated", <<"x">>)},
        a \in {<<>>, Attr("table:style-name", <<"ce1">>), Attr("office:value", <<"1">>),
               Attr("office:value-type", <<"bogus">>),
               Attr("office:value-type", <<"bogus">>) \o Attr("office:value", <<"1">>),
               Attr("office:value-type", <<"String">>)}}

\* cells of type string, with and without a value attribute
StringCells ==
    {start_a("table:table-cell", Attr("office:value-type", <<"string">>) \o v) :
        v \in {<<>>, Attr("office:value", <<"1">>)}}

\* office:date-value strings: dates, timestamps, and strings that are neither
DateStrings ==
    {<<"2", "0", "2", "3", "-", "0", "5", "-", "0", "1">>,
     <<"2", "0", "2", "4", "-", "0", "2", "-", "2", "9">>,
     <<"2", "0", "2", "3", "-", "0", "2", "-", "3", "0">>,
     <<"2", "0", "2", "3", "-", "1", "3", "-", "0", "1">>,
     <<"2", "0", "2", "3", "-", "0", "5", "-", "0", "x">>,
     <<"2", "0", "2", "3", "-", "5", "-", "1">>,
     <<"2", "0", "2", "3", "-", "0", "5", "-", "1">>,
     <<"2", "0", "2", "3", "-", "0", "5", "-", "0", "1", "T", "1", "3", ":", "4", "5", ":", "0", "0">>,
     <<"2", "0", "2", "3", "-", "0", "5", "-", "0", "1", "T", "1", "3", ":", "4", "5", ":", "0", "0", ".", "5">>,
     <<"2", "0", "2", "3", "-", "0", "5", "-", "0", "1", "T", "1", "3", ":", "4", "5", ":", "0", "0", ".", "1", "2", "3", "4", "5", "6", "7", "8", "9">>,
     <<"2", "0", "2", "3", "-", "0", "5", "-", "0", "1", "T", "2", "4", ":", "0", "0", ":", "0", "0">>,
     <<"2", "0", "2", "3", "-", "0", "5", "-", "0", "1", "T", "1", "3", ":", "4", "5">>,
     <<"2", "0", "2", "3", "-", "0", "5", "-", "0", "1", "T">>,
     <<"x">>,
     <<>>}

DateCells ==
    {start_a("table:table-cell",
             Attr("office:value-type", <<"date">>) \o Attr("office:date-value", d)) :
        d \in DateStrings}

TypedCells ==
    {start_a("table:table-cell",
             Attr("office:value-type", <<"time">>) \o Attr("office:time-value", d)) :
        d \in DurationStrings \cup PartialDurationStrings}
    \cup {start_a("table:table-cell", Attr("office:value-type", <<"currency">>) \o c \o v) :
            c \in {<<>>, Attr("office:currency", <<"EUR">>)},
            v \in {<<>>} \cup {Attr("office:value", x) : x \in ValueStrings}}
    \cup NoValueCells \cup UntypedCells \cup StringCells \cup DateCells

Texts == {text(<<"a">>), text(<<"b">>)}

\* the events a well nested stream may continue with
GenEvents(x) ==
    LET top == Top(x.open)
    IN  CASE x.alpha = "cols" ->
              (IF top = "" THEN {start_a("table:table", Attr("table:name", <<"t">>))}
               ELSE ColumnEvents \cup {end("table:table")})
          [] x.alpha = "rows" ->
              (CASE top = "" -> {start_a("table:table", Attr("table:name", <<"t">>)),
                                 empty("office:scripts"),
                                 start("office:font-face-decls"),
                                 start("office:automatic-styles"),
                                 Ev("Err", "", <<>>, <<>>)}
                 [] top = "office:font-face-decls" ->
                        {empty("style:font-face"), end("office:font-face-decls")}
                 [] top = "office:automatic-styles" ->
                        {empty("style:style"), end("office:automatic-styles")}
                 [] top = "table:table" -> RowStarts \cup {end("table:table")}
                 [] top = "table:table-row" ->
                        EmptyCells \cup CellStarts \cup {end("table:table-row")}
                 [] top = "table:table-cell" ->
                        Texts \cup {start("text:p"), end("table:table-cell"),
                                    Ev("Err", "", <<>>, <<>>)}
                 [] top = "text:p" -> {text(<<"a">>), end("text:p")}
                 [] OTHER -> {})
          [] x.alpha = "other" ->
              (CASE top = "" -> {start_a("table:table", Attr("table:name", <<"t">>)),
                                 empty("office:scripts"), start("office:annotation")}
                 [] top = "table:table" ->
                        {start("table:table-row"), start("office:annotation"),
                         end("table:table")}
                 [] top = "table:table-row" ->
                        {start_a("table:table-cell", FloatOne),
                         start_a("table:table-cell", Attr("office:value-type", <<"string">>)),
                         empty("office:annotation"), end("table:table-row")}
                 [] top = "table:table-cell" ->
                        {text(<<"a">>), start("text:p"), start("office:annotation"),
                         empty("text:s"), end("table:table-cell")}
                 [] top = "text:p" -> {text(<<"a">>), end("text:p")}
                 [] top = "office:annotation" -> {text(<<"n">>), end("office:annotation")}
                 [] OTHER -> {})
          [] x.alpha = "cell" ->
              (CASE top = "" -> IF x.pos = 1
                                THEN {start_a("table:table", Attr("table:name", <<"t">>))}
                                ELSE {}
                 [] top = "table:table" -> IF x.pos = 2 THEN {start("table:table-row")}
                                           ELSE {end("table:table")}
                 [] top = "table:table-row" -> IF x.pos = 3 THEN TypedCells
                                               ELSE {end("table:table-row")}
                 [] top = "table:table-cell" ->
                        Texts \cup {start("text:p"), end("table:table-cell")}
                 [] top = "text:p" -> Texts \cup {end("text:p")}
                 [] OTHER -> {})
          [] OTHER -> {}

\* read_event checks the name of an end tag against the element that is open
EndMismatch(x) == x.doc[x.pos].k = "End" /\ x.doc[x.pos].name # Top(x.open)

\* what read_event may return next; nothing before the document is written
NextEvents ==
    IF wpc # "done" THEN {}
    ELSE IF xml.eof THEN {EvEof}
    ELSE IF xml.mode = "doc"
         THEN (IF xml.pos > Len(xml.doc) THEN {EvEof}
               ELSE IF EndMismatch(xml) THEN {Ev("Err", "", <<>>, <<>>)}
               ELSE {xml.doc[xml.pos]})
    ELSE IF xml.pos > MaxEvents THEN {EvEof}
    ELSE GenEvents(xml) \cup {EvEof}

(***************************************************************************)
(* Parser actions: one per branch of the event loops of read_content,      *)
(* read_table_cell, read_fonts and read_styles                             *)
(***************************************************************************)
Is(ev, k, name) == ev.k = k /\ ev.name = name

Fail(e) == pc' = "err" /\ err' = e

ReaderFrame == UNCHANGED <<book_in, wpc, wsheet, wstate>>

ReadTableStart ==
    /\ pc = "content"
    /\ UNCHANGED otherVars
    /\ \E ev \in NextEvents :
        /\ Is(ev, "Start", "table:table")
        /\ sheet' = read_table(ev.attrs, sheet)
        /\ xml' = Advance(xml, ev)
    /\ ReaderFrame
    /\ UNCHANGED <<pc, book, cur, pend, err>>

ReadTableEnd ==
    /\ pc = "content"
    /\ UNCHANGED otherVars
    /\ \E ev \in NextEvents :
        /\ Is(ev, "End", "table:table")
        /\ cur' = [cur EXCEPT !.row = 0, !.col = 0]
        /\ book' = Append(book, sheet)
        /\ sheet' = NewSheet
        /\ xml' = Advance(xml, ev)
    /\ ReaderFrame
    /\ UNCHANGED <<pc, pend, err>>

ReadTableColumn ==
    /\ pc = "content"
    /\ UNCHANGED otherVars
    /\ \E ev \in NextEvents :
        /\ Is(ev, "Empty", "table:table-column")
        /\ LET r == read_table_column(ev.attrs, cur.tcol, sheet)
           IN  IF r.ok
               THEN /\ cur' = [cur EXCEPT !.tcol = r.tcol]
                    /\ sheet' = r.sheet
                    /\ UNCHANGED <<pc, err>>
               ELSE /\ Fail(r.e)
                    /\ UNCHANGED <<cur, sheet>>
        /\ xml' = Advance(xml, ev)
    /\ ReaderFrame
    /\ UNCHANGED <<book, pend>>

ReadTableRowStart ==
    /\ pc = "content"
    /\ UNCHANGED otherVars
    /\ \E ev \in NextEvents :
        /\ Is(ev, "Start", "table:table-row")
        /\ LET r == read_table_row(ev.attrs, cur.row_style)
           IN  IF r.ok
               THEN /\ cur' = [cur EXCEPT !.row_repeat = r.row_repeat,
                                          !.row_style = r.row_style]
                    /\ UNCHANGED <<pc, err>>
               ELSE /\ Fail(r.e)
                    /\ UNCHANGED cur
        /\ xml' = Advance(xml, ev)
    /\ ReaderFrame
    /\ UNCHANGED <<book, sheet, pend>>

ReadTableRowEnd ==
    /\ pc = "content"
    /\ UNCHANGED otherVars
    /\ \E ev \in NextEvents :
        /\ Is(ev, "End", "table:table-row")
        /\ sheet' = IF IsSome(cur.row_style)
                    THEN SetRowStyles(sheet, cur.row, cur.row_repeat, Get(cur.row_style))
                    ELSE sheet
        /\ cur' = [cur EXCEPT !.row_style = None, !.row = cur.row + cur.row_repeat,
                              !.col = 0, !.row_repeat = 1]
        /\ xml' = Advance(xml, ev)
    /\ ReaderFrame
    /\ UNCHANGED <<pc, book, pend, err>>

ReadEmptyTableCell ==
    /\ pc = "content"
    /\ UNCHANGED otherVars
    /\ \E ev \in NextEvents :
        /\ Is(ev, "Empty", "table:table-cell")
        /\ LET r == read_empty_table_cell(ev.attrs, cur.col)
           IN  IF r.ok
               THEN cur' = [cur EXCEPT !.col = r.col] /\ UNCHANGED <<pc, err>>
               ELSE Fail(r.e) /\ UNCHANGED cur
        /\ xml' = Advance(xml, ev)
    /\ ReaderFrame
    /\ UNCHANGED <<book, sheet, pend>>

\* read_table_cell up to its event loop
ReadTableCellStart ==
    /\ pc = "content"
    /\ UNCHANGED otherVars
    /\ \E ev \in NextEvents :
        /\ Is(ev, "Start", "table:table-cell")
        /\ LET r == CellAttrs(ev.attrs, [ok |-> TRUE, e |-> "none", p |-> NoPend])
           IN  IF r.ok
               THEN pend' = r.p /\ pc' = "cell" /\ UNCHANGED err
               ELSE Fail(r.e) /\ UNCHANGED pend
        /\ xml' = Advance(xml, ev)
    /\ ReaderFrame
    /\ UNCHANGED <<book, sheet, cur>>

\* the event loop of read_table_cell
CellText ==
    /\ pc = "cell"
    /\ UNCHANGED otherVars
    /\ \E ev \in NextEvents :
        /\ ev.k = "Text"
        /\ pend' = [pend EXCEPT !.cell_content = Some(ev.text)]
        /\ xml' = Advance(xml, ev)
    /\ ReaderFrame
    /\ UNCHANGED <<pc, book, sheet, cur, err>>

CellEnd ==
    /\ pc = "cell"
    /\ UNCHANGED otherVars
    /\ \E ev \in NextEvents :
        /\ Is(ev, "End", "table:table-cell")
        /\ LET r == parse_value(pend.value_type, pend.cell_value,
                                pend.cell_content, pend.cell_currency)
           IN  IF r.ok
               THEN /\ sheet' = AddCells(sheet, cur.row, cur.col,
                                         [pend.cell EXCEPT !.value = r.v], pend.cell_repeat)
                    /\ cur' = [cur EXCEPT !.col = cur.col + Max2(pend.cell_repeat, 1)]
                    /\ pc' = "content"
                    /\ UNCHANGED err
               ELSE /\ Fail(r.e)
                    /\ UNCHANGED <<sheet, cur>>
        /\ pend' = NoPend
        /\ xml' = Advance(xml, ev)
    /\ ReaderFrame
    /\ UNCHANGED book

\* Eof inside the cell: the loop breaks and read_table_cell returns Ok(col)
CellEof ==
    /\ pc = "cell"
    /\ UNCHANGED otherVars
    /\ \E ev \in NextEvents :
        /\ ev.k = "Eof"
        /\ xml' = Advance(xml, ev)
    /\ pc' = "content"
    /\ pend' = NoPend
    /\ ReaderFrame
    /\ UNCHANGED <<book, sheet, cur, err>>

CellOther ==
    /\ pc = "cell"
    /\ UNCHANGED otherVars
    /\ \E ev \in NextEvents :
        /\ ev.k \notin {"Text", "Eof", "Err"}
        /\ ~Is(ev, "End", "table:table-cell")
        /\ xml' = Advance(xml, ev)
    /\ ReaderFrame
    /\ UNCHANGED <<pc, book, sheet, cur, pend, err>>

\* read_fonts and read_styles: skip to the end tag (or Eof); the model's
\* documents declare no fonts, styles or formats the claims look at
ReadFontsStart ==
    /\ pc = "content"
    /\ UNCHANGED otherVars
    /\ \E ev \in NextEvents :
        /\ Is(ev, "Start", "office:font-face-decls")
        /\ xml' = Advance(xml, ev)
    /\ pc' = "fonts"
    /\ ReaderFrame
    /\ UNCHANGED <<book, sheet, cur, pend, err>>

ReadFontsLoop ==
    /\ pc = "fonts"
    /\ UNCHANGED otherVars
    /\ \E ev \in NextEvents :
        /\ ev.k # "Err"
        /\ pc' = IF Is(ev, "End", "office:font-face-decls") \/ ev.k = "Eof"
                 THEN "content" ELSE "fonts"
        /\ xml' = Advance(xml, ev)
    /\ ReaderFrame
    /\ UNCHANGED <<book, sheet, cur, pend, err>>

ReadStylesStart ==
    /\ pc = "content"
    /\ UNCHANGED otherVars
    /\ \E ev \in NextEvents :
        /\ Is(ev, "Start", "office:automatic-styles")
        /\ xml' = Advance(xml, ev)
    /\ pc' = "styles"
    /\ ReaderFrame
    /\ UNCHANGED <<book, sheet, cur, pend, err>>

ReadStylesLoop ==
    /\ pc = "styles"
    /\ UNCHANGED otherVars
    /\ \E ev \in NextEvents :
        /\ ev.k # "Err"
        /\ pc' = IF Is(ev, "End", "office:automatic-styles") \/ ev.k = "Eof"
                 THEN "content" ELSE "styles"
        /\ xml' = Advance(xml, ev)
    /\ ReaderFrame
    /\ UNCHANGED <<book, sheet, cur, pend, err>>

\* Event::Eof in read_content: break, Ok(book)
ReadEof ==
    /\ pc = "content"
    /\ UNCHANGED otherVars
    /\ \E ev \in NextEvents :
        /\ ev.k = "Eof"
        /\ xml' = Advance(xml, ev)
    /\ pc' = "ok"
    /\ ReaderFrame
    /\ UNCHANGED <<book, sheet, cur, pend, err>>

Handled(ev) ==
    \/ Is(ev, "Start", "table:table") \/ Is(ev, "End", "table:table")
    \/ Is(ev, "Empty", "table:table-column")
    \/ Is(ev, "Start", "table:table-row") \/ Is(ev, "End", "table:table-row")
    \/ Is(ev, "Start", "office:font-face-decls")
    \/ Is(ev, "Start", "office:automatic-styles")
    \/ Is(ev, "Empty", "table:table-cell") \/ Is(ev, "Start", "table:table-cell")
    \/ ev.k \in {"Eof", "Err"}

\* the `_ => {}` branch of read_content
ReadOther ==
    /\ pc = "content"
    /\ UNCHANGED otherVars
    /\ \E ev \in NextEvents :
        /\ ~Handled(ev)
        /\ xml' = Advance(xml, ev)
    /\ ReaderFrame
    /\ UNCHANGED <<pc, book, sheet, cur, pend, err>>

\* xml.read_event(&mut buf)? returning an error, in any of the loops
ReadEventError ==
    /\ pc \in {"content", "cell", "fonts", "styles"}
    /\ UNCHANGED otherVars
    /\ \E ev \in NextEvents :
        /\ ev.k = "Err"
        /\ xml' = Advance(xml, ev)
    /\ Fail("Xml")
    /\ ReaderFrame
    /\ UNCHANGED <<book, sheet, cur, pend>>

(***************************************************************************)
(* Workbooks handed to the serializer                                      *)
(***************************************************************************)
Positions == (0..MaxRow) \X (0..MaxCol)

RECURSIVE KeySets(_)
KeySets(n) == IF n = 0 THEN {{}}
              ELSE KeySets(n - 1) \cup {S \cup {p} : S \in KeySets(n - 1), p \in Positions}

NumberOne == SCell(Some(VNumber(10)), None, None)
EmptyCell == SCell(None, None, None)
StyledEmptyCell == SCell(None, Some(<<"ce1">>), None)

SheetOf(data) == [NewSheet EXCEPT !.name = <<"s1">>, !.data = data]

\* sparse grids: up to MaxCells cells anywhere, with or without a value
GridSheets == {SheetOf(d) : d \in UNION {[K -> {NumberOne, EmptyCell}] : K \in KeySets(MaxCells)}}

\* a styled cell without value, alone or before a valued cell
StyledSheets ==
    {SheetOf(d) : d \in UNION {[K -> {NumberOne, StyledEmptyCell}] :
                                  K \in {{<<0, 0>>}, {<<0, 0>>, <<0, 1>>}, {<<1, 1>>, <<1, 2>>}}}}

Values ==
    {VText(<<"a">>), VText(<<"a", "b">>),
     VNumber(-15), VNumber(0), VNumber(10), VNumber(25),
     VPercentage(5), VPercentage(10),
     VCurrency(<<"EUR">>, 15), VCurrency(<<"USD">>, 120),
     VBoolean(TRUE), VBoolean(FALSE),
     VDateTime(DateTimeOf(2023, 5, 1, 0, 0, 0, 0)),
     VDateTime(DateTimeOf(2023, 5, 1, 13, 45, 0, 0)),
     VDateTime(DateTimeOf(1999, 12, 31, 23, 59, 59, 500000000)),
     VDateTime(DateTimeOf(2024, 2, 29, 1, 2, 3, 26490000)),
     VDateTime(DateTimeOf(800, 1, 9, 1, 2, 3, 123456789)),
     DurationOfMillis(0), DurationOfMillis(1000), DurationOfMillis(8130500),
     DurationOfMillis(3723004), DurationOfMillis(50), DurationOfMillis(86400999),
     DurationOfMillis(-1500)}

\* cells without value: plain, styled, or holding a formula only
FormulaEmptyCell == SCell(None, None, Some(<<"of:=1">>))
NoValueSheets ==
    {SheetOf(d) : d \in UNION {[K -> {EmptyCell, StyledEmptyCell, FormulaEmptyCell}] :
                                  K \in {{<<0, 0>>}, {<<0, 0>>, <<0, 1>>}}}}

\* one cell at (0, 0) holding each value
ValueSheets == {SheetOf([k \in {<<0, 0>>} |-> SCell(Some(v), None, None)]) : v \in Values}

ColumnA == SColumn(Some(<<"co1">>), None)
ColumnB == SColumn(None, Some(<<"ce1">>))

\* column declarations over a sheet whose used extent is MaxCol + 1 columns,
\* within the extent and beyond it
ColumnSheets ==
    {[SheetOf([k \in {<<0, MaxCol>>} |-> NumberOne]) EXCEPT !.columns = c] :
        c \in UNION {[K -> {ColumnA, ColumnB}] :
                        K \in {{0}, {1}, {MaxCol}, {0, 1}, {MaxCol + 1}, {0, MaxCol + 2}}}}

\* row styles on rows with and without occupied cells
RowSheets ==
    {[SheetOf([k \in K |-> NumberOne]) EXCEPT !.rows = [r \in R |-> SRow(Some(<<"ro1">>))]] :
        K \in {{<<0, 0>>}, {<<2, 0>>}, {<<0, 0>>, <<2, 0>>}},
        R \in {{0}, {1}, {2}, {0, 2}}}

Book(sheets, fonts, styles, formats) ==
    [sheets |-> sheets, def_styles |-> NoDefStyles, fonts |-> fonts, styles |-> styles,
     formats |-> formats]

\* workbooks with fonts, styles and formats of origin Content and one sheet
\* of one cell
ContentFormats ==
    {<<>>,
     <<[name |-> <<"f1">>, v_type |-> "Number",
        parts |-> <<FormatPart("Number", <<>>, None), FormatPart("Text", <<>>, Some(<<"x">>))>>]>>}
StyleBooks ==
    {Book(<<SheetOf([k \in {<<0, 0>>} |-> NumberOne])>>, fonts, styles, formats) :
        fonts \in {<<>>, <<<<"font1">>>>, <<<<"font1">>, <<"font2">>>>},
        styles \in {<<>>, <<<<"ce1">>>>},
        formats \in ContentFormats}

WorkBooks ==
    {Book(<<sh>>, <<>>, <<>>, <<>>) :
        sh \in GridSheets \cup StyledSheets \cup NoValueSheets \cup ValueSheets
               \cup ColumnSheets \cup RowSheets}
    \cup StyleBooks

NoBook == Book(<<>>, <<>>, <<>>, <<>>)

(***************************************************************************)
(* Specifications                                                          *)
(***************************************************************************)
CurStart == [tcol |-> 0, row |-> 0, col |-> 0, row_repeat |-> 1, row_style |-> None]

InitReader ==
    /\ pc = "content"
    /\ book = <<>>
    /\ sheet = NewSheet
    /\ cur = CurStart
    /\ pend = NoPend
    /\ err = "none"

\* the machines that take no part in a run stay as they are
OthersIdle ==
    /\ arch = [step |-> "idle"]
    /\ xw = [step |-> "idle"]
    /\ fmt = [step |-> "idle"]

ContentIdle ==
    /\ book_in = NoBook
    /\ wpc = "done"
    /\ wsheet = 1
    /\ wstate = WriteStart
    /\ xml = DocSource
    /\ pc = "ok"
    /\ book = <<>>
    /\ sheet = NewSheet
    /\ cur = CurStart
    /\ pend = NoPend
    /\ err = "none"

\* write_ods_content of a workbook, then read_content of what was written
Init ==
    /\ OthersIdle
    /\ book_in \in WorkBooks
    /\ wpc = "idle"
    /\ wsheet = 1
    /\ wstate = WriteStart
    /\ xml = DocSource
    /\ InitReader

Next ==
    \/ WriteContentBegin \/ WriteSheetBegin \/ WriteSheetCell \/ WriteSheetEnd
    \/ WriteContentEnd
    \/ ReadTableStart \/ ReadTableEnd \/ ReadTableColumn
    \/ ReadTableRowStart \/ ReadTableRowEnd
    \/ ReadEmptyTableCell \/ ReadTableCellStart
    \/ CellText \/ CellEnd \/ CellOther
    \/ ReadFontsStart \/ ReadFontsLoop \/ ReadStylesStart \/ ReadStylesLoop
    \/ ReadEof \/ ReadOther \/ ReadEventError

Spec == Init /\ [][Next]_vars

\* read_content over any event stream of the alphabets "cols", "rows" and "other"
InitRead ==
    /\ OthersIdle
    /\ book_in = NoBook
    /\ wpc = "done"
    /\ wsheet = 1
    /\ wstate = WriteStart
    /\ xml \in {GenSource("cols"), GenSource("rows"), GenSource("other")}
    /\ InitReader

NextRead ==
    \/ ReadTableStart \/ ReadTableEnd \/ ReadTableColumn
    \/ ReadTableRowStart \/ ReadTableRowEnd
    \/ ReadEmptyTableCell \/ ReadTableCellStart
    \/ CellText \/ CellEnd \/ CellEof \/ CellOther
    \/ ReadFontsStart \/ ReadFontsLoop \/ ReadStylesStart \/ ReadStylesLoop
    \/ ReadEof \/ ReadOther \/ ReadEventError

SpecRead == InitRead /\ [][NextRead]_vars

\* read_content over a document of one table, one row and one typed cell
InitCell ==
    /\ OthersIdle
    /\ book_in = NoBook
    /\ wpc = "done"
    /\ wsheet = 1
    /\ wstate = WriteStart
    /\ xml = GenSource("cell")
    /\ InitReader

NextCell ==
    \/ ReadTableStart \/ ReadTableEnd
    \/ ReadTableRowStart \/ ReadTableRowEnd
    \/ ReadTableCellStart
    \/ CellText \/ CellEnd \/ CellEof \/ CellOther
    \/ ReadEof

SpecCell == InitCell /\ [][NextCell]_vars

(***************************************************************************)
(* write_ods_clean: the backup of the source file and the output archive.  *)
(* A path is <<stem, extension>>; the file system maps a path to the file  *)
(* it holds ("none" when there is no file); the archive of the source file *)
(* is a sequence of entries [name, dir].                                   *)
(***************************************************************************)
MaxMembers == 3     \* entries of the archive the workbook was read from

SrcPath == <<"a", "ods">>
OtherPath == <<"b", "ods">>
set_extension(path, ext) == <<path[1], ext>>
Paths == {SrcPath, set_extension(SrcPath, "bak"), OtherPath}

\* a backup that leaves the file at its path
rename_copy(fs, from, to) == [fs EXCEPT ![to] = fs[from]]

\* std::fs::rename: the file moves, replacing what the target held
rename(fs, from, to) == [fs EXCEPT ![to] = fs[from], ![from] = "none"]

EntryList ==
    <<[name |-> "mimetype", dir |-> FALSE],
      [name |-> "META-INF/", dir |-> TRUE],
      [name |-> "META-INF/manifest.xml", dir |-> FALSE],
      [name |-> "meta.xml", dir |-> FALSE],
      [name |-> "styles.xml", dir |-> FALSE],
      [name |-> "content.xml", dir |-> FALSE],
      [name |-> "Pictures/", dir |-> TRUE],
      [name |-> "Pictures/a.png", dir |-> FALSE]>>
EntriesAt(idx) == [i \in 1..Len(idx) |-> EntryList[idx[i]]]
Archives ==
    {EntriesAt(SortedNats(S)) :
        S \in {T \in SUBSET (1..Len(EntryList)) : Cardinality(T) <= MaxMembers}}

\* TempZip::new, start_file and add_directory: the names in the order given
NewZip == [files |-> <<>>, dirs |-> <<>>]
start_file(zip, name) == [zip EXCEPT !.files = Append(@, name)]
add_directory(zip, name) == [zip EXCEPT !.dirs = Append(@, name)]

ArchFail(step) == arch' = [arch EXCEPT !.step = "done", !.res = "err", !.failed = step]

InitWrite ==
    /\ ContentIdle
    /\ xw = [step |-> "idle"]
    /\ fmt = [step |-> "idle"]
    /\ \E file \in {None, Some(SrcPath)}, ods_path \in {SrcPath, OtherPath},
          clean \in BOOLEAN, src \in {"original", "none"}, bak \in {"none", "old"},
          members \in Archives :
        /\ (file = None \/ src = "none") => members = <<>>
        /\ arch = [step |-> "rename", file |-> file, ods_path |-> ods_path,
                   clean |-> clean, members |-> members,
                   fs |-> [p \in Paths |-> IF p = SrcPath THEN src
                                           ELSE IF p = OtherPath THEN "none" ELSE bak],
                   orig_bak |-> None, i |-> 1, file_set |-> {}, zip |-> NewZip,
                   res |-> "none", failed |-> "none"]

\* write_ods_clean up to TempZip::new: the source file becomes the backup
WriteRename ==
    /\ arch.step = "rename"
    /\ UNCHANGED <<contentVars, xw, fmt>>
    /\ IF IsSome(arch.file)
       THEN LET orig_bak == set_extension(Get(arch.file), "bak")
            IN  \/ /\ arch.fs[Get(arch.file)] # "none"
                   /\ arch' = [arch EXCEPT !.fs = rename(@, Get(arch.file), orig_bak),
                                           !.orig_bak = Some(orig_bak),
                                           !.step = "open"]
                \/ ArchFail("rename")
       ELSE arch' = [arch EXCEPT !.step = "mimetype"]

\* copy_workbook: File::open and ZipArchive::new of the backup
WriteCopyOpen ==
    /\ arch.step = "open"
    /\ UNCHANGED <<contentVars, xw, fmt>>
    /\ \/ arch' = [arch EXCEPT !.step = "copy", !.i = 1]
       \/ ArchFail("copy")

\* copy_workbook: one turn of the loop over the entries of the backup
WriteCopyEntry ==
    /\ arch.step = "copy"
    /\ arch.i <= Len(arch.members)
    /\ UNCHANGED <<contentVars, xw, fmt>>
    /\ LET e == arch.members[arch.i]
       IN  \/ /\ e.name \notin arch.file_set
              /\ arch' = [arch EXCEPT !.file_set = @ \cup {e.name},
                                      !.zip = IF e.dir THEN add_directory(@, e.name)
                                              ELSE start_file(@, e.name),
                                      !.i = @ + 1]
           \/ /\ e.name \in arch.file_set
              /\ arch' = [arch EXCEPT !.i = @ + 1]
           \/ ArchFail("copy")

WriteCopyEnd ==
    /\ arch.step = "copy"
    /\ arch.i > Len(arch.members)
    /\ UNCHANGED <<contentVars, xw, fmt>>
    /\ arch' = [arch EXCEPT !.step = "mimetype"]

\* write_mimetype, write_manifest_rdf, write_meta, write_ods_styles: a member
\* is written unless its name is in file_set
WriteMember(step, name, next) ==
    /\ arch.step = step
    /\ UNCHANGED <<contentVars, xw, fmt>>
    /\ IF name \notin arch.file_set
       THEN \/ arch' = [arch EXCEPT !.file_set = @ \cup {name},
                                    !.zip = start_file(@, name),
                                    !.step = next]
            \/ ArchFail(step)
       ELSE arch' = [arch EXCEPT !.step = next]

WriteMimetype == WriteMember("mimetype", "mimetype", "manifest")

\* write_manifest: the directory META-INF, then the member
WriteManifest ==
    /\ arch.step = "manifest"
    /\ UNCHANGED <<contentVars, xw, fmt>>
    /\ IF "META-INF/manifest.xml" \notin arch.file_set
       THEN \/ arch' = [arch EXCEPT !.file_set = @ \cup {"META-INF/manifest.xml"},
                                    !.zip = start_file(add_directory(@, "META-INF"),
                                                       "META-INF/manifest.xml"),
                                    !.step = "manifest_rdf"]
            \/ ArchFail("manifest")
       ELSE arch' = [arch EXCEPT !.step = "manifest_rdf"]

WriteManifestRdf == WriteMember("manifest_rdf", "manifest.rdf", "meta")
WriteMeta == WriteMember("meta", "meta.xml", "styles")
WriteOdsStyles == WriteMember("styles", "styles.xml", "content")

\* write_ods_content: content.xml is started whatever file_set holds
WriteOdsContent ==
    /\ arch.step = "content"
    /\ UNCHANGED <<contentVars, xw, fmt>>
    /\ \/ arch' = [arch EXCEPT !.file_set = @ \cup {"content.xml"},
                               !.zip = start_file(@, "content.xml"),
                               !.step = "zip"]
       \/ ArchFail("content")

\* TempZip::zip: the archive appears at ods_path; a failure may leave a part of it
WriteZip ==
    /\ arch.step = "zip"
    /\ UNCHANGED <<contentVars, xw, fmt>>
    /\ \/ arch' = [arch EXCEPT !.fs[arch.ods_path] = "new", !.step = "clean"]
       \/ ArchFail("zip")
       \/ arch' = [arch EXCEPT !.fs[arch.ods_path] = "partial", !.step = "done",
                               !.res = "err", !.failed = "zip"]

\* TempZip::clean when asked for, then Ok(())
WriteClean ==
    /\ arch.step = "clean"
    /\ UNCHANGED <<contentVars, xw, fmt>>
    /\ \/ arch' = [arch EXCEPT !.step = "done", !.res = "ok"]
       \/ /\ arch.clean
          /\ ArchFail("clean")

NextWrite ==
    \/ WriteRename \/ WriteCopyOpen \/ WriteCopyEntry \/ WriteCopyEnd
    \/ WriteMimetype \/ WriteManifest \/ WriteManifestRdf \/ WriteMeta
    \/ WriteOdsStyles \/ WriteOdsContent \/ WriteZip \/ WriteClean

SpecWrite == InitWrite /\ [][NextWrite]_vars

(***************************************************************************)
(* The locales' default currency formats (locale/de_at.rs, locale/en_us.rs)*)
(* A ValueFormat is the sequence of its parts; an amount is an integer     *)
(* number of hundredths.                                                   *)
(***************************************************************************)
MaxAmount == 12     \* amounts rendered: multiples of 617.25 up to this factor

Locales == {"de_AT", "en_US"}
Amounts == {a * 61725 : a \in 0..MaxAmount}
Symbol(locale) == IF locale = "de_AT" THEN "€" ELSE "$"
GroupSep(locale) == IF locale = "de_AT" THEN "." ELSE ","
DecimalSep(locale) == IF locale = "de_AT" THEN "," ELSE "."

\* the format parts the builders of ValueFormat push
CurrencyPart(locale, symbol) == [kind |-> "CurrencySymbol", locale |-> locale, text |-> symbol]
TextPart(t) == [kind |-> "Text", text |-> t]
NumberPart(decimal_places, min_decimal_places, grouping) ==
    [kind |-> "Number", decimal_places |-> decimal_places,
     min_decimal_places |-> min_decimal_places, grouping |-> grouping]

\* digits in groups of three from the right
RECURSIVE Grouped(_, _)
Grouped(ds, sep) ==
    IF Len(ds) <= 3 THEN ds
    ELSE Grouped(SubSeq(ds, 1, Len(ds) - 3), sep) \o <<sep>> \o SubSeq(ds, Len(ds) - 2, Len(ds))

\* a Number part of two decimal places renders the amount
RenderNumber(part, locale, amount) ==
    (IF part.grouping THEN Grouped(NatToStr(amount \div 100), GroupSep(locale))
     ELSE NatToStr(amount \div 100))
    \o <<DecimalSep(locale)>> \o PadNat(amount % 100, part.decimal_places)

RenderPart(part, locale, amount) ==
    IF part.kind = "Number" THEN RenderNumber(part, locale, amount) ELSE <<part.text>>

\* the parts render and concatenate left to right
RECURSIVE Render(_, _, _)
Render(parts, locale, amount) ==
    IF parts = <<>> THEN <<>>
    ELSE RenderPart(Head(parts), locale, amount) \o Render(Tail(parts), locale, amount)

InitFormat ==
    /\ ContentIdle
    /\ arch = [step |-> "idle"]
    /\ xw = [step |-> "idle"]
    /\ \E locale \in Locales, amount \in Amounts :
        fmt = [step |-> "new", locale |-> locale, amount |-> amount, parts |-> <<>>,
               out |-> <<>>]

\* currency_format: ValueFormat::new_localized
CurrencyNew ==
    /\ fmt.step = "new"
    /\ UNCHANGED <<contentVars, arch, xw>>
    /\ fmt' = [fmt EXCEPT !.parts = <<>>, !.step = "currency"]

\* currency_format: v.part_currency().locale(..).symbol(..)
CurrencyPartCurrency ==
    /\ fmt.step = "currency"
    /\ UNCHANGED <<contentVars, arch, xw>>
    /\ fmt' = [fmt EXCEPT !.parts = Append(@, CurrencyPart(fmt.locale, Symbol(fmt.locale))),
                          !.step = "text"]

\* currency_format: v.part_text(" "); en_us.rs drops the builder it returns
\* without push(), which may or may not leave the part in the format
CurrencyPartText ==
    /\ fmt.step = "text"
    /\ UNCHANGED <<contentVars, arch, xw>>
    /\ \/ fmt' = [fmt EXCEPT !.parts = Append(@, TextPart(" ")), !.step = "number"]
       \/ /\ fmt.locale = "en_US"
          /\ fmt' = [fmt EXCEPT !.step = "number"]

\* currency_format: v.part_number().decimal_places(2).min_decimal_places(2).grouping(),
\* the statement at lines 53-57
CurrencyPartNumber ==
    /\ fmt.step = "number"
    /\ UNCHANGED <<contentVars, arch, xw>>
    /\ fmt' = [fmt EXCEPT !.parts = Append(@, NumberPart(2, 2, TRUE)), !.step = "number2"]

\* currency_format: the same statement again at lines 58-62, then v is returned
CurrencyPartNumberAgain ==
    /\ fmt.step = "number2"
    /\ UNCHANGED <<contentVars, arch, xw>>
    /\ fmt' = [fmt EXCEPT !.parts = Append(@, NumberPart(2, 2, TRUE)), !.step = "built"]

\* a currency value is rendered with the format
CurrencyRender ==
    /\ fmt.step = "built"
    /\ UNCHANGED <<contentVars, arch, xw>>
    /\ fmt' = [fmt EXCEPT !.out = Render(fmt.parts, fmt.locale, fmt.amount),
                          !.step = "rendered"]

NextFormat ==
    \/ CurrencyNew \/ CurrencyPartCurrency \/ CurrencyPartText
    \/ CurrencyPartNumber \/ CurrencyPartNumberAgain \/ CurrencyRender

SpecFormat == InitFormat /\ [][NextFormat]_vars

(***************************************************************************)
(* XmlWriter (xml_util.rs): elem, empty, attr, text, end_elem and close.   *)
(* The build feature check_xml selects one of the two Stack               *)
(* implementations; what is written is kept as a sequence of tokens (the   *)
(* whitespace of the feature indent_xml is left out).                      *)
(***************************************************************************)
MaxCalls == 4       \* calls made on one XmlWriter before close()

ElemNames == {"a", "b"}

\* Stack::push, pop and is_empty under cfg(feature = "check_xml") and without it
StackPush(check_xml, stack, name) == IF check_xml THEN Append(stack, name) ELSE stack
StackTop(check_xml, stack) ==
    IF check_xml /\ stack # <<>> THEN Some(stack[Len(stack)]) ELSE None
StackPop(check_xml, stack) ==
    IF check_xml /\ stack # <<>> THEN SubSeq(stack, 1, Len(stack) - 1) ELSE stack
StackIsEmpty(check_xml, stack) == IF check_xml THEN stack = <<>> ELSE TRUE

\* XmlWriter::close_elem: the pending tag is finished
CloseElem(w) ==
    [w EXCEPT !.out = @ \o (IF w.open = "Elem" THEN <<">">>
                            ELSE IF w.open = "Empty" THEN <<"/>">> ELSE <<>>),
              !.open = "None"]

XwCalled(w) == [w EXCEPT !.calls = @ + 1]
XwIoError == xw' = [xw EXCEPT !.step = "err"]
XwPanic == xw' = [xw EXCEPT !.step = "panic"]

InitXml ==
    /\ ContentIdle
    /\ arch = [step |-> "idle"]
    /\ fmt = [step |-> "idle"]
    /\ \E check_xml \in BOOLEAN :
        xw = [step |-> "run", check_xml |-> check_xml, stack |-> <<>>, open |-> "None",
              out |-> <<>>, unended |-> <<>>, calls |-> 0]

\* XmlWriter::elem
XwElem ==
    /\ xw.step = "run" /\ xw.calls < MaxCalls
    /\ UNCHANGED <<contentVars, arch, fmt>>
    /\ \/ \E name \in ElemNames :
            xw' = [XwCalled(CloseElem(xw)) EXCEPT
                      !.stack = StackPush(xw.check_xml, @, name),
                      !.out = @ \o <<"<", name>>,
                      !.open = "Elem",
                      !.unended = Append(@, name)]
       \/ XwIoError

\* XmlWriter::empty
XwEmpty ==
    /\ xw.step = "run" /\ xw.calls < MaxCalls
    /\ UNCHANGED <<contentVars, arch, fmt>>
    /\ \/ \E name \in ElemNames :
            xw' = [XwCalled(CloseElem(xw)) EXCEPT !.out = @ \o <<"<", name>>,
                                                    !.open = "Empty"]
       \/ XwIoError

\* XmlWriter::attr
XwAttr ==
    /\ xw.step = "run" /\ xw.calls < MaxCalls
    /\ UNCHANGED <<contentVars, arch, fmt>>
    /\ IF xw.check_xml /\ xw.open = "None"
       THEN XwPanic
       ELSE \/ xw' = [XwCalled(xw) EXCEPT !.out = @ \o <<" ", "n", "=\"", "v", "\"">>]
            \/ XwIoError

\* XmlWriter::text
XwText ==
    /\ xw.step = "run" /\ xw.calls < MaxCalls
    /\ UNCHANGED <<contentVars, arch, fmt>>
    /\ \/ xw' = [XwCalled(CloseElem(xw)) EXCEPT !.out = @ \o <<"t">>]
       \/ XwIoError

\* XmlWriter::end_elem
XwEndElem ==
    /\ xw.step = "run" /\ xw.calls < MaxCalls
    /\ UNCHANGED <<contentVars, arch, fmt>>
    /\ \E name \in ElemNames :
        IF xw.check_xml /\ StackTop(xw.check_xml, xw.stack) # Some(name)
        THEN XwPanic
        ELSE \/ xw' = [XwCalled(CloseElem(xw)) EXCEPT
                          !.stack = StackPop(xw.check_xml, @),
                          !.out = @ \o <<"</", name, ">">>,
                          !.unended = IF @ = <<>> THEN @ ELSE SubSeq(@, 1, Len(@) - 1)]
             \/ XwIoError

\* XmlWriter::close
XwClose ==
    /\ xw.step = "run"
    /\ UNCHANGED <<contentVars, arch, fmt>>
    /\ IF xw.check_xml /\ ~StackIsEmpty(xw.check_xml, xw.stack)
       THEN XwPanic
       ELSE xw' = [xw EXCEPT !.step = "closed"]

NextXml == XwElem \/ XwEmpty \/ XwAttr \/ XwText \/ XwEndElem \/ XwClose

SpecXml == InitXml /\ [][NextXml]_vars

(***************************************************************************)
(* Value formats in the document: write_value_styles of one ValueFormat    *)
(* and read_styles of what was written.  A format is [name, v_type,        *)
(* parts], a part [ftype, prp, content] with prp the sequence of its       *)
(* attributes.                                                             *)
(***************************************************************************)
MaxParts == 2       \* parts of the format that is written and read

\* read_styles: the value type of a format element, the kind of a part element
ValueStyleTags == {ValueStyleTag(t) : t \in ValueTypes}
ValueTypeOfTag(name) == CHOOSE t \in ValueTypes : ValueStyleTag(t) = name
PartTypeOfTag ==
    [name \in {PartTag(f) : f \in FormatTypes \ {"CurrencySymbol", "Text"}} |->
        CASE name = "number:boolean" -> "Boolean"
          [] name = "number:number" -> "Number"
          [] name = "number:scientific-number" -> "Scientific"
          [] name = "number:day" -> "Day"
          [] name = "number:month" -> "Month"
          [] name = "number:year" -> "Year"
          [] name = "number:era" -> "Era"
          [] name = "number:day-of-week" -> "DayOfWeek"
          [] name = "number:week-of-year" -> "WeekOfYear"
          [] name = "number:quarter" -> "Quarter"
          [] name = "number:hours" -> "Hours"
          [] name = "number:minutes" -> "Minutes"
          [] name = "number:seconds" -> "Seconds"
          [] name = "number:fraction" -> "Fraction"
          [] name = "number:am-pm" -> "AmPm"
          [] name = "number:embedded-text" -> "EmbeddedText"
          [] name = "number:text-content" -> "TextContent"
          [] name = "style:text" -> "Day"
          [] name = "style:map" -> "StyleMap"]

\* read_value_style: the value type, and style:name as the name
read_value_style(value_type, value_style, attrs) ==
    [value_style EXCEPT !.v_type = value_type,
                        !.name = IF HasAttr(attrs, "style:name")
                                 THEN AttrOf(attrs, "style:name") ELSE @]
read_part(attrs, part_type) == FormatPart(part_type, attrs, None)
push_part(value_style, part) == [value_style EXCEPT !.parts = Append(@, part)]

\* the formats written: parts of every kind, literal parts with and without text
InputParts ==
    {FormatPart(f, <<>>, None) : f \in FormatTypes}
    \cup {FormatPart(f, <<>>, Some(<<"x">>)) : f \in {"Text", "CurrencySymbol"}}
RECURSIVE PartSeqs(_)
PartSeqs(n) ==
    IF n = 0 THEN {<<>>}
    ELSE PartSeqs(n - 1) \cup {Append(q, part) : q \in PartSeqs(n - 1), part \in InputParts}
InputFormats ==
    {[name |-> <<"f1">>, v_type |-> t, parts |-> parts] :
        t \in {"Currency", "DateTime"}, parts \in PartSeqs(MaxParts) \ {<<>>}}

InitStyles ==
    /\ ContentIdle
    /\ arch = [step |-> "idle"]
    /\ xw = [step |-> "idle"]
    /\ \E style \in InputFormats, closed \in BOOLEAN :
        /\ ~closed => Len(style.parts) = 1
        /\ fmt = [step |-> "write", style |-> style, closed |-> closed, doc |-> <<>>,
                  pos |-> 1, value_style |-> NewFormat, value_style_part |-> None,
                  formats |-> <<>>]

\* write_value_styles inside office:automatic-styles; the document may be cut
\* before the end tag of office:automatic-styles
StylesWrite ==
    /\ fmt.step = "write"
    /\ UNCHANGED <<contentVars, arch, xw>>
    /\ fmt' = [fmt EXCEPT !.doc = write_value_styles(fmt.style)
                                  \o (IF fmt.closed THEN <<end("office:automatic-styles")>>
                                      ELSE <<>>),
                          !.step = "read"]

StylesEvent == IF fmt.pos <= Len(fmt.doc) THEN fmt.doc[fmt.pos] ELSE EvEof

\* read_styles: Event::Start and Event::Empty
StylesReadElement ==
    /\ fmt.step = "read"
    /\ StylesEvent.k \in {"Start", "Empty"}
    /\ UNCHANGED <<contentVars, arch, xw>>
    /\ LET ev == StylesEvent
       IN  fmt' =
             IF ev.name \in ValueStyleTags
             THEN [fmt EXCEPT !.pos = @ + 1,
                              !.value_style =
                                  read_value_style(ValueTypeOfTag(ev.name), @, ev.attrs)]
             ELSE IF ev.name \in DOMAIN PartTypeOfTag
             THEN [fmt EXCEPT !.pos = @ + 1,
                              !.value_style =
                                  push_part(@, read_part(ev.attrs, PartTypeOfTag[ev.name]))]
             ELSE IF ev.name \in {"number:currency-symbol", "number:text"}
             THEN LET part == read_part(ev.attrs, IF ev.name = "number:text" THEN "Text"
                                                  ELSE "CurrencySymbol")
                  IN  IF ev.k = "Empty"
                      THEN [fmt EXCEPT !.pos = @ + 1, !.value_style = push_part(@, part),
                                       !.value_style_part = None]
                      ELSE [fmt EXCEPT !.pos = @ + 1, !.value_style_part = Some(part)]
             ELSE [fmt EXCEPT !.pos = @ + 1]

\* read_styles: Event::Text
StylesReadText ==
    /\ fmt.step = "read"
    /\ StylesEvent.k = "Text"
    /\ UNCHANGED <<contentVars, arch, xw>>
    /\ fmt' = [fmt EXCEPT !.pos = @ + 1,
                          !.value_style_part =
                              IF IsSome(@)
                              THEN Some([Get(@) EXCEPT !.content = Some(StylesEvent.text)])
                              ELSE @]

\* read_styles: Event::End
StylesReadEnd ==
    /\ fmt.step = "read"
    /\ StylesEvent.k = "End"
    /\ UNCHANGED <<contentVars, arch, xw>>
    /\ LET ev == StylesEvent
       IN  fmt' =
             IF ev.name = "office:automatic-styles"
             THEN [fmt EXCEPT !.pos = @ + 1, !.step = "done"]
             ELSE IF ev.name \in ValueStyleTags
             THEN [fmt EXCEPT !.pos = @ + 1, !.formats = Append(@, fmt.value_style),
                              !.value_style = NewFormat]
             ELSE IF ev.name \in {"number:currency-symbol", "number:text"}
             THEN [fmt EXCEPT !.pos = @ + 1,
                              !.value_style = IF IsSome(fmt.value_style_part)
                                              THEN push_part(@, Get(fmt.value_style_part))
                                              ELSE @,
                              !.value_style_part = None]
             ELSE [fmt EXCEPT !.pos = @ + 1]

\* read_styles: Event::Eof
StylesReadEof ==
    /\ fmt.step = "read"
    /\ StylesEvent.k = "Eof"
    /\ UNCHANGED <<contentVars, arch, xw>>
    /\ fmt' = [fmt EXCEPT !.step = "done"]

NextStyles ==
    \/ StylesWrite \/ StylesReadElement \/ StylesReadText \/ StylesReadEnd \/ StylesReadEof

SpecStyles == InitStyles /\ [][NextStyles]_vars

(***************************************************************************)
(* The locales' eight default formats and their registration in a workbook *)
(* by name.  A format is here its header: name, value type, locale and     *)
(* truncate_on_overflow.                                                   *)
(***************************************************************************)
DefaultKinds ==
    {"boolean", "number", "percentage", "currency", "date", "datetime",
     "time_of_day", "time_interval"}

\* ValueFormat::new_localized; a new format truncates on overflow
new_localized(name, locale, v_type) ==
    [name |-> name, locale |-> locale, v_type |-> v_type, truncate_on_overflow |-> TRUE]
set_truncate_on_overflow(v, truncate) == [v EXCEPT !.truncate_on_overflow = truncate]

boolean_format(locale) == new_localized("bool", locale, "Boolean")
number_format(locale) == new_localized("number", locale, "Number")
percentage_format(locale) == new_localized("percent", locale, "Percentage")
currency_format(locale) == new_localized("currency", locale, "Currency")
date_format(locale) == new_localized("date", locale, "DateTime")
datetime_format(locale) == new_localized("datetime", locale, "DateTime")
time_of_day_format(locale) ==
    IF locale = "de_AT" THEN new_localized("datetime", locale, "TimeDuration")
    ELSE new_localized("time_of_day", locale, "DateTime")
time_interval_format(locale) ==
    IF locale = "de_AT"
    THEN set_truncate_on_overflow(new_localized("datetime", locale, "DateTime"), FALSE)
    ELSE set_truncate_on_overflow(new_localized("time_interval", locale, "TimeDuration"), FALSE)

\* WorkBook::add_format: the formats of a workbook are keyed by name
add_format(formats, v) ==
    [n \in DOMAIN formats \cup {v.name} |-> IF n = v.name THEN v ELSE formats[n]]

InitLocale ==
    /\ ContentIdle
    /\ arch = [step |-> "idle"]
    /\ xw = [step |-> "idle"]
    /\ \E locale \in Locales :
        fmt = [step |-> "defaults", locale |-> locale, built |-> <<>>, formats |-> <<>>]

\* one default format is built and registered
RegisterDefault(kind, v) ==
    /\ fmt.step = "defaults"
    /\ kind \notin DOMAIN fmt.built
    /\ UNCHANGED <<contentVars, arch, xw>>
    /\ fmt' = [fmt EXCEPT !.built = [k \in DOMAIN fmt.built \cup {kind} |->
                                        IF k = kind THEN v ELSE fmt.built[k]],
                          !.formats = add_format(@, v)]

DefaultBoolean == RegisterDefault("boolean", boolean_format(fmt.locale))
DefaultNumber == RegisterDefault("number", number_format(fmt.locale))
DefaultPercentage == RegisterDefault("percentage", percentage_format(fmt.locale))
DefaultCurrency == RegisterDefault("currency", currency_format(fmt.locale))
DefaultDate == RegisterDefault("date", date_format(fmt.locale))
DefaultDatetime == RegisterDefault("datetime", datetime_format(fmt.locale))
DefaultTimeOfDay == RegisterDefault("time_of_day", time_of_day_format(fmt.locale))
DefaultTimeInterval == RegisterDefault("time_interval", time_interval_format(fmt.locale))

NextLocale ==
    \/ DefaultBoolean \/ DefaultNumber \/ DefaultPercentage \/ DefaultCurrency
    \/ DefaultDate \/ DefaultDatetime \/ DefaultTimeOfDay \/ DefaultTimeInterval

SpecLocale == InitLocale /\ [][NextLocale]_vars

(***************************************************************************)
(* Properties                                                              *)
(***************************************************************************)
\* the sheet handed to the serializer and the sheet the parser made of it
InSheet == book_in.sheets[1]
ValuedKeys(sh) == {k \in DOMAIN sh.data : IsSome(sh.data[k].value)}

RECURSIVE StoredCells(_)
StoredCells(b) ==
    IF b = <<>> THEN 0 ELSE Cardinality(DOMAIN Head(b).data) + StoredCells(Tail(b))

\* the last event the parser took from a generated stream
Delivered == xml.mode = "gen" /\ Len(xml.doc) > 0 /\ ~xml.eof
LastEvent == xml.doc[Len(xml.doc)]

\* C1: write_sheet followed by read_content yields, for every sheet, a cell
\* map with exactly the (row, column) keys of the sheet that was written,
\* wherever the occupied cells lie and whether or not they hold a value.
RoundTripKeys ==
    pc = "ok" =>
        /\ Len(book) = Len(book_in.sheets)
        /\ \A i \in 1..Len(book) : DOMAIN book[i].data = DOMAIN book_in.sheets[i].data

\* C2: a cell holding a Value of any of the seven kinds is written by
\* write_cell and parsed back by parse_value without error into an equal Value.
OneValueSheet ==
    /\ DOMAIN InSheet.data = {<<0, 0>>}
    /\ IsSome(InSheet.data[<<0, 0>>].value)
ValueRoundTrip ==
    (OneValueSheet /\ pc \in {"ok", "err"}) =>
        /\ pc = "ok"
        /\ Len(book) = 1
        /\ <<0, 0>> \in DOMAIN book[1].data
        /\ book[1].data[<<0, 0>>].value = InSheet.data[<<0, 0>>].value

\* C3: when read_content returns Ok, every table started in the event stream
\* is a sheet of the workbook and every started cell element is stored in it.
ReadAllOrError ==
    pc = "ok" =>
        /\ Len(book) = xml.seen.tables
        /\ StoredCells(book) = xml.seen.slots

\* C4: every sheet of a document, the first and the later ones, holds one
\* column entry per repeated column index of its table-column declarations,
\* at the indices 0 .. (sum of its repeat counts) - 1.
ColumnsPerSheet ==
    \A i \in 1..Len(book) :
        DOMAIN book[i].columns = 0..(xml.seen.colsums[i] - 1)

\* C5: the table-row and table-cell elements write_sheet emits for a sheet of
\* n occupied cells number at most 6 * n, however large the gaps between them.
RowCellElements(doc) ==
    Cardinality({i \in 1..Len(doc) :
        \/ doc[i].k = "Start" /\ doc[i].name = "table:table-row"
        \/ doc[i].k \in {"Start", "Empty"} /\ doc[i].name = "table:table-cell"})
ElementsLinear ==
    wpc = "done" => RowCellElements(xml.doc) <= 6 * Cardinality(DOMAIN InSheet.data)
ElementsLinearWitness ==
    /\ wpc = "done"
    /\ DOMAIN InSheet.data = {<<MaxRow, 1>>}
    /\ RowCellElements(xml.doc) = 5

\* C6: cells with no value, no style and no formula leave no entry in the cell
\* map after writing and reading back: the map read holds as many entries as
\* the sheet written holds cells with a value, none for a row of empty cells.
PlainSheet ==
    \A k \in DOMAIN InSheet.data :
        IsSome(InSheet.data[k].value) \/ InSheet.data[k] = EmptyCell
EmptyCellsLeaveNothing ==
    (pc = "ok" /\ PlainSheet) =>
        /\ Len(book) = 1
        /\ Cardinality(DOMAIN book[1].data) = Cardinality(ValuedKeys(InSheet))
EmptyCellsLeaveNothingWitness ==
    /\ pc = "ok"
    /\ DOMAIN InSheet.data = {<<1, 0>>, <<1, 1>>}
    /\ \A k \in DOMAIN InSheet.data : InSheet.data[k] = EmptyCell
    /\ Len(book) = 1
    /\ DOMAIN book[1].data = {}

\* C7: an empty table-cell element with a style name and
\* number-columns-repeated = n is stored by the parser as n cells carrying
\* that style at n consecutive columns of the current row.
StyledRepeatedCell(ev) ==
    /\ Is(ev, "Empty", "table:table-cell")
    /\ HasAttr(ev.attrs, "table:style-name")
    /\ HasAttr(ev.attrs, "table:number-columns-repeated")
StyledEmptyCellsStored ==
    (Delivered /\ pc = "content" /\ StyledRepeatedCell(LastEvent)) =>
        \A j \in 1..RepeatOf(LastEvent.attrs, "table:number-columns-repeated") :
            /\ <<cur.row, cur.col - j>> \in DOMAIN sheet.data
            /\ sheet.data[<<cur.row, cur.col - j>>].style
                   = Some(AttrOf(LastEvent.attrs, "table:style-name"))

\* C8: at the end of a table-row element that carries a style name and
\* number-rows-repeated = n, the parser records the style for the rows
\* row .. row + n - 1, stores no cell, and advances the row cursor by n.
OpenRow == xml.open[Len(xml.open)]
RowStyleRepeated ==
    [][(/\ pc = "content"
        /\ Top(xml.open) = "table:table-row"
        /\ HasAttr(OpenRow.attrs, "table:style-name")
        /\ Len(xml'.doc) = Len(xml.doc) + 1
        /\ Is(xml'.doc[Len(xml'.doc)], "End", "table:table-row"))
       => LET n == RepeatOf(OpenRow.attrs, "table:number-rows-repeated")
              s == AttrOf(OpenRow.attrs, "table:style-name")
          IN  /\ \A r \in cur.row..(cur.row + n - 1) :
                    r \in DOMAIN sheet'.rows /\ sheet'.rows[r].style = Some(s)
              /\ sheet'.data = sheet.data
              /\ cur'.row = cur.row + n]_vars
RowStyleRepeatedWitness ==
    /\ Delivered /\ pc = "content"
    /\ Len(xml.doc) >= 2
    /\ LastEvent = end("table:table-row")
    /\ xml.doc[Len(xml.doc) - 1]
          = start_a("table:table-row", Attr("table:number-rows-repeated", <<"2">>)
                                        \o Attr("table:style-name", <<"ro1">>))
    /\ cur.row = 2
    /\ DOMAIN sheet.rows = {0, 1}
    /\ \A r \in {0, 1} : sheet.rows[r].style = Some(<<"ro1">>)
    /\ DOMAIN sheet.data = {}

\* the typed cell of a one-cell document, once its end tag has been read
CellTag == xml.doc[3]
CellClosed ==
    /\ xml.alpha = "cell"
    /\ \E i \in 1..Len(xml.doc) : Is(xml.doc[i], "End", "table:table-cell")
ReadSheet == IF Len(book) > 0 THEN book[1] ELSE sheet

\* the digits of a duration string between two of its markers
Between(d, a, b) == SubSeq(d, IndexOf(d, a) + 1, IndexOf(d, b) - 1)
DurationOf(d) ==
    LET dot == IndexOf(d, ".") > 0
        h   == DigitsToNat(Between(d, "T", "H"))
        m   == DigitsToNat(Between(d, "H", "M"))
        sc  == DigitsToNat(Between(d, "M", IF dot THEN "." ELSE "S"))
        f   == IF dot THEN Between(d, ".", "S") ELSE <<>>
    IN  VTimeDuration(h * 3600 + m * 60 + sc, PadRight(DigitsToNat(f), 9 - Len(f)))

\* C9: a duration PT{h}H{m}M{s}.{f}S with 1 to 9 fraction digits, or
\* PT{h}H{m}M{s}S with none, decodes to h hours + m minutes + s seconds and
\* f right-padded with zeros to 9 digits as nanoseconds.
DurationDecoded ==
    (/\ CellClosed
     /\ HasAttr(CellTag.attrs, "office:time-value")
     /\ AttrOf(CellTag.attrs, "office:time-value") \in DurationStrings) =>
        /\ pc # "err"
        /\ <<0, 0>> \in DOMAIN ReadSheet.data
        /\ ReadSheet.data[<<0, 0>>].value
              = Some(DurationOf(AttrOf(CellTag.attrs, "office:time-value")))
DurationDecodedWitness ==
    /\ CellClosed
    /\ HasAttr(CellTag.attrs, "office:time-value")
    /\ AttrOf(CellTag.attrs, "office:time-value")
          = <<"P", "T", "2", "H", "1", "5", "M", "3", "0", ".",
              "5", "0", "0", "0", "0", "0", "0", "0", "0", "S">>
    /\ <<0, 0>> \in DOMAIN ReadSheet.data
    /\ ReadSheet.data[<<0, 0>>].value = Some(VTimeDuration(2 * 3600 + 15 * 60 + 30, 500000000))

\* a cell declared as currency without a currency code
CurrencyNoCode ==
    /\ CellClosed
    /\ HasAttr(CellTag.attrs, "office:value-type")
    /\ AttrOf(CellTag.attrs, "office:value-type") = <<"currency">>
    /\ ~HasAttr(CellTag.attrs, "office:currency")

\* C10 as stated: a currency cell without currency code fails with
\* OdsError::Ods, whatever its value attribute is.
CurrencyNoCodeIsOdsError ==
    CurrencyNoCode => pc = "err" /\ err = "Ods"

\* C10: a currency cell without currency code never yields a Value: the read
\* fails, with the float parse error when the cell has a value attribute that
\* is no decimal literal, and with OdsError::Ods otherwise.
CurrencyNoCodeFails ==
    CurrencyNoCode =>
        /\ pc = "err"
        /\ err = IF HasAttr(CellTag.attrs, "office:value")
                    /\ ~ParseF64(AttrOf(CellTag.attrs, "office:value")).ok
                 THEN "ParseFloat" ELSE "Ods"
        /\ book = <<>>
        /\ DOMAIN sheet.data = {}
CurrencyNoCodeFailsWitness ==
    /\ CurrencyNoCode
    /\ HasAttr(CellTag.attrs, "office:value")
    /\ AttrOf(CellTag.attrs, "office:value") = <<"1", ".", "5">>
    /\ pc = "err"
    /\ err = "Ods"

\* the attributes of the typed cell of a one-cell document
CellHas(key) == HasAttr(CellTag.attrs, key)
CellAttr(key) == AttrOf(CellTag.attrs, key)
ValueAttrNames == {"office:value", "office:date-value", "office:time-value",
                   "office:boolean-value"}
NothingStored == book = <<>> /\ DOMAIN sheet.data = {}

\* C11: a cell declared Number, Percentage, Currency, Boolean, DateTime or
\* TimeDuration that has no value attribute makes parse_value return
\* OdsError::Ods; no value is made up for it.
NoValueIsOdsError ==
    (/\ CellClosed
     /\ CellHas("office:value-type")
     /\ CellAttr("office:value-type")
            \in {<<"float">>, <<"percentage">>, <<"currency">>, <<"boolean">>,
                 <<"date">>, <<"time">>}
     /\ \A a \in ValueAttrNames : ~CellHas(a))
    => pc = "err" /\ err = "Ods" /\ NothingStored
NoValueIsOdsErrorWitness ==
    /\ CellClosed
    /\ CellTag = start_a("table:table-cell", Attr("office:value-type", <<"boolean">>))
    /\ pc = "err"
    /\ err = "Ods"

\* C12: a table-cell start element whose other attributes are well formed and
\* whose office:value-type is missing, or is none of string, float,
\* percentage, date, time, boolean, currency, makes the read fail with
\* OdsError::Ods, and no cell is stored for it.
KnownTypes == {<<"string">>, <<"float">>, <<"percentage">>, <<"date">>, <<"time">>,
               <<"boolean">>, <<"currency">>}
CellSeen == xml.alpha = "cell" /\ Len(xml.doc) >= 3
RepeatWellFormed ==
    CellHas("table:number-columns-repeated")
        => ParseUsize(CellAttr("table:number-columns-repeated")).ok
ModelledNames == {"table:table", "table:table-column", "table:table-row",
                  "table:table-cell", "office:font-face-decls",
                  "office:automatic-styles", "text:p"}
\* the event a step takes from a generated stream
Taken == Len(xml'.doc) = Len(xml.doc) + 1
TakenEvent == xml'.doc[Len(xml'.doc)]
Unmodelled(ev, open) ==
    \/ ev.k \in {"Start", "End", "Empty"} /\ ev.name \notin ModelledNames
    \/ ev.k = "Text" /\ Top(open) \notin (ModelledNames \cup {""})

\* C13: the start, end and empty events of an element the parser does not
\* model, and the text inside it, cause no error and leave the sheet, the
\* cursors and the pending cell's value and content as they were, also
\* inside a table cell.
UnknownEventsIgnored ==
    [][(Taken /\ Unmodelled(TakenEvent, xml.open))
       => /\ pc' = pc /\ err' = err
          /\ sheet' = sheet /\ book' = book /\ cur' = cur
          /\ pend'.cell_value = pend.cell_value
          /\ pend'.cell_content = pend.cell_content]_vars

\* the text nodes of the cell of a one-cell document, in document order
IsText(e) == e.k = "Text"
CellTextNodes == SelectSeq(xml.doc, IsText)
CellTextContent == Concat([i \in 1..Len(CellTextNodes) |-> CellTextNodes[i].text])
IsStringCell ==
    /\ CellClosed
    /\ CellHas("office:value-type")
    /\ CellAttr("office:value-type") = <<"string">>

\* C14: the value of a Text cell is the complete text content of the cell
\* element, every text node of it included, whether or not the cell has a
\* value attribute.
TextIsWholeContent ==
    (IsStringCell /\ Len(CellTextNodes) > 0) =>
        /\ pc # "err"
        /\ <<0, 0>> \in DOMAIN ReadSheet.data
        /\ ReadSheet.data[<<0, 0>>].value = Some(VText(CellTextContent))

\* the forms YYYY-MM-DD and YYYY-MM-DDTHH:MM:SS[.fraction], by position
Num(v, i, j) == DigitsToNat(SubSeq(v, i, j))
DateForm(v) ==
    /\ Len(v) >= 10
    /\ AllDigits(SubSeq(v, 1, 4)) /\ v[5] = "-"
    /\ AllDigits(SubSeq(v, 6, 7)) /\ v[8] = "-"
    /\ AllDigits(SubSeq(v, 9, 10))
    /\ Num(v, 6, 7) \in 1..12
    /\ Num(v, 9, 10) \in 1..DaysInMonth(Num(v, 1, 4), Num(v, 6, 7))
TimestampForm(v) ==
    /\ Len(v) >= 19
    /\ DateForm(v) /\ v[11] = "T"
    /\ AllDigits(SubSeq(v, 12, 13)) /\ v[14] = ":"
    /\ AllDigits(SubSeq(v, 15, 16)) /\ v[17] = ":"
    /\ AllDigits(SubSeq(v, 18, 19))
    /\ Num(v, 12, 13) <= 23 /\ Num(v, 15, 16) <= 59 /\ Num(v, 18, 19) <= 59
    /\ (Len(v) > 19 => /\ v[20] = "." /\ Len(v) \in 21..29
                       /\ AllDigits(SubSeq(v, 21, Len(v))))
DateOf(v) == DateTimeOf(Num(v, 1, 4), Num(v, 6, 7), Num(v, 9, 10), 0, 0, 0, 0)
TimestampOf(v) ==
    DateTimeOf(Num(v, 1, 4), Num(v, 6, 7), Num(v, 9, 10),
               Num(v, 12, 13), Num(v, 15, 16), Num(v, 18, 19),
               IF Len(v) > 19 THEN PadRight(Num(v, 21, Len(v)), 9 - (Len(v) - 20)) ELSE 0)

IsDateCell ==
    /\ CellClosed
    /\ CellHas("office:value-type") /\ CellAttr("office:value-type") = <<"date">>
    /\ CellHas("office:date-value")
CellStoredAs(v) ==
    /\ pc # "err"
    /\ <<0, 0>> \in DOMAIN ReadSheet.data
    /\ ReadSheet.data[<<0, 0>>].value = Some(v)
CellFailsWith(e) == pc = "err" /\ err = e /\ NothingStored

\* C15: a date value of 10 characters is parsed as YYYY-MM-DD at 00:00:00, a
\* value of any other length as YYYY-MM-DDTHH:MM:SS[.fraction]; a value that
\* does not fit the form its length selects fails with the chrono parse error.
DateLengthDispatch ==
    IsDateCell =>
        LET v == CellAttr("office:date-value")
        IN  IF Len(v) = 10
            THEN IF DateForm(v) THEN CellStoredAs(VDateTime(DateOf(v)))
                 ELSE CellFailsWith("Chrono")
            ELSE IF TimestampForm(v) THEN CellStoredAs(VDateTime(TimestampOf(v)))
                 ELSE CellFailsWith("Chrono")
DateLengthDispatchWitness ==
    /\ IsDateCell
    /\ CellAttr("office:date-value") = <<"2", "0", "2", "3", "-", "0", "5", "-", "0", "1">>
    /\ CellStoredAs(VDateTime(DateTimeOf(2023, 5, 1, 0, 0, 0, 0)))

\* counts of the elements of the written document
CountEvents(doc, P(_)) == Cardinality({i \in 1..Len(doc) : P(doc[i])})
IsCellStart(e) == Is(e, "Start", "table:table-cell")
IsTypedCell(e) == e.name = "table:table-cell" /\ HasAttr(e.attrs, "office:value-type")
IsParagraph(e) == Is(e, "Start", "text:p")
IsBareCell(e) == Is(e, "Empty", "table:table-cell") /\ e.attrs = <<>>
PlainKeys(sh) == {k \in DOMAIN sh.data : sh.data[k] = EmptyCell}

\* C16: write_cell emits a cell with no value, no style and no formula as
\* an empty table-cell element without attributes, and emits no cell without
\* value as a start element, with office:value-type, or with a text:p child:
\* the written sheet holds one typed table-cell start element with one text:p
\* per cell with a value, and one bare empty element per plain empty cell.
NoValueNeverTyped ==
    wpc = "done" =>
        /\ CountEvents(xml.doc, IsCellStart) = Cardinality(ValuedKeys(InSheet))
        /\ CountEvents(xml.doc, IsTypedCell) = Cardinality(ValuedKeys(InSheet))
        /\ CountEvents(xml.doc, IsParagraph) = Cardinality(ValuedKeys(InSheet))
        /\ CountEvents(xml.doc, IsBareCell) = Cardinality(PlainKeys(InSheet))
NoValueNeverTypedWitness ==
    /\ wpc = "done"
    /\ DOMAIN InSheet.data = {<<0, 0>>, <<0, 1>>}
    /\ InSheet.data[<<0, 0>>] = EmptyCell
    /\ InSheet.data[<<0, 1>>] = FormulaEmptyCell
    /\ CountEvents(xml.doc, IsBareCell) = 1
    /\ CountEvents(xml.doc, IsCellStart) = 0

\* the write had a workbook read from a file and has moved that file away
Renamed == arch.step # "idle" /\ IsSome(arch.orig_bak)
Written == arch.zip # NewZip \/ arch.fs[arch.ods_path] \in {"new", "partial"}

\* C17: write_ods_clean renames the source file of the workbook to its .bak
\* name before it writes anything, and when a later step fails the error is
\* returned, the .bak file still holds the original and the original is not
\* back at its path.
BackupStaysOnError ==
    arch.step # "idle" =>
        /\ (IsSome(arch.file) /\ Written) => Renamed
        /\ (Renamed /\ arch.failed # "none") =>
              /\ arch.res = "err"
              /\ arch.fs[Get(arch.orig_bak)] = "original"
              /\ arch.fs[Get(arch.file)] # "original"
BackupStaysOnErrorWitness ==
    /\ Renamed
    /\ arch.failed = "content"
    /\ arch.res = "err"
    /\ arch.zip.files # <<>>
    /\ arch.fs[set_extension(SrcPath, "bak")] = "original"
    /\ arch.fs[SrcPath] = "none"

\* the members write_ods_clean writes itself when file_set lets it
Regenerated ==
    {"mimetype", "META-INF/manifest.xml", "manifest.rdf", "meta.xml", "styles.xml",
     "content.xml"}
Started(name) == Cardinality({i \in 1..Len(arch.zip.files) : arch.zip.files[i] = name})
InOutput(name) ==
    \/ \E i \in 1..Len(arch.zip.files) : arch.zip.files[i] = name
    \/ \E i \in 1..Len(arch.zip.dirs) : arch.zip.dirs[i] = name

\* C18: when a workbook read from a file is written, every member of the
\* original archive that the write does not regenerate is copied into the
\* output, and no member name is started in the output more than once.
MembersCopiedOnce ==
    (Renamed /\ arch.res = "ok") =>
        /\ \A i \in 1..Len(arch.members) :
              arch.members[i].name \notin Regenerated => InOutput(arch.members[i].name)
        /\ \A i \in 1..Len(arch.zip.files) : Started(arch.zip.files[i]) = 1

PartsOfKind(kind) == {i \in 1..Len(fmt.parts) : fmt.parts[i].kind = kind}
Occurrences(str, c) == Cardinality({i \in 1..Len(str) : str[i] = c})

\* C19: for every locale of the registry the default currency format holds
\* exactly one currency-symbol part and exactly one Number part, of 2 decimal
\* places, minimum 2, grouping on, so that a currency value renders as one
\* grouped two-decimal number together with the locale's symbol.
CurrencyAmountOnce ==
    fmt.step \in {"built", "rendered"} =>
        /\ Cardinality(PartsOfKind("CurrencySymbol")) = 1
        /\ Cardinality(PartsOfKind("Number")) = 1
        /\ \A i \in PartsOfKind("Number") : fmt.parts[i] = NumberPart(2, 2, TRUE)
        /\ fmt.step = "rendered" =>
              /\ Occurrences(fmt.out, Symbol(fmt.locale)) = 1
              /\ Occurrences(fmt.out, DecimalSep(fmt.locale)) = 1

\* C20: XmlWriter::close fails if there are any open elements: after calls
\* of elem and end_elem that leave an element opened by elem() without its
\* end, close() does not return Ok.
CloseFailsWhenOpen ==
    xw.step = "closed" => xw.unended = <<>>

\* write_ods_content has returned and the document is as it was written
DocWritten == wpc = "done" /\ xml.mode = "doc" /\ xml.pos = 1

\* the table-row elements of a written document
IsRowStart(e) == Is(e, "Start", "table:table-row")
IsRowEnd(e) == Is(e, "End", "table:table-row")
IsCell(e) == e.k \in {"Start", "Empty"} /\ e.name = "table:table-cell"
RowStartIdx(doc) == {i \in 1..Len(doc) : IsRowStart(doc[i])}
RowEndOf(doc, i) == MinNat({j \in i..Len(doc) : IsRowEnd(doc[j])} \cup {Len(doc) + 1})
RowCells(doc, i) == {j \in i..(RowEndOf(doc, i) - 1) : IsCell(doc[j])}
\* a cell write_cell wrote carries no repeat count, a gap always does
IsWrittenCell(e) == IsCell(e) /\ ~HasAttr(e.attrs, "table:number-columns-repeated")
OccupiedRowIdx(doc) == {i \in RowStartIdx(doc) : \E j \in RowCells(doc, i) : IsWrittenCell(doc[j])}
RECURSIVE RowsUpTo(_, _)
RowsUpTo(doc, n) ==
    IF n = 0 THEN 0
    ELSE RowsUpTo(doc, n - 1)
         + (IF IsRowStart(doc[n]) THEN RepeatOf(doc[n].attrs, "table:number-rows-repeated")
            ELSE 0)
UsedRows(sh) == {k[1] : k \in DOMAIN sh.data}

\* C21: for every occupied row r of a sheet the table-row elements written
\* before the row element of r stand for exactly r rows, whether r is the
\* first occupied row (r = 1 or r >= 2) or a later one.
RowsBeforeOccupied ==
    DocWritten =>
        {RowsUpTo(xml.doc, i - 1) : i \in OccupiedRowIdx(xml.doc)} = UsedRows(InSheet)

RECURSIVE ColsBetween(_, _, _)
ColsBetween(doc, from, to) ==
    IF from > to THEN 0
    ELSE ColsBetween(doc, from, to - 1)
         + (IF IsCell(doc[to]) THEN RepeatOf(doc[to].attrs, "table:number-columns-repeated")
            ELSE 0)
RowWidth(doc, i) == ColsBetween(doc, i, RowEndOf(doc, i) - 1)

\* C22: every table-row element write_sheet emits, a row with occupied
\* cells or an empty-row block, stands for exactly the used column extent of
\* the sheet: gaps and occupied cells add up to highest used column + 1.
RowsSpanExtent ==
    DocWritten =>
        \A i \in RowStartIdx(xml.doc) : RowWidth(xml.doc, i) = used_grid_size(InSheet)[2]
RowsSpanExtentWitness ==
    /\ DocWritten
    /\ DOMAIN InSheet.data = {<<0, 1>>, <<2, 2>>}
    /\ Cardinality(RowStartIdx(xml.doc)) = 3
    /\ \A i \in RowStartIdx(xml.doc) : RowWidth(xml.doc, i) = 3

\* rows open after the first n events of a document
RECURSIVE RowDepth(_, _)
RowDepth(doc, n) ==
    IF n = 0 THEN 0
    ELSE RowDepth(doc, n - 1)
         + (IF IsRowStart(doc[n]) THEN 1 ELSE IF IsRowEnd(doc[n]) THEN -1 ELSE 0)

\* C23: in what write_sheet emits, table-row start and end events alternate
\* with at most one row open, every table-cell element stands in an open
\* row, the open row is closed when the row index advances and after the
\* last cell, and a sheet without cells emits no row element.
RowsAlternate ==
    DocWritten =>
          /\ \A n \in 1..Len(xml.doc) :
                /\ RowDepth(xml.doc, n) \in {0, 1}
                /\ IsCell(xml.doc[n]) => RowDepth(xml.doc, n) = 1
          /\ RowDepth(xml.doc, Len(xml.doc)) = 0
          /\ Cardinality(OccupiedRowIdx(xml.doc)) = Cardinality(UsedRows(InSheet))
          /\ DOMAIN InSheet.data = {} => RowStartIdx(xml.doc) = {}
RowsAlternateWitness ==
    /\ DocWritten
    /\ Cardinality(UsedRows(InSheet)) = 2
    /\ Cardinality(OccupiedRowIdx(xml.doc)) = 2
    /\ Cardinality(RowStartIdx(xml.doc)) = 3

\* C24: for every duration of whole milliseconds, negative ones and those
\* with a millisecond part between 1 and 99 included, decoding the
\* office:time-value string write_cell builds gives back the same duration.
DurationRoundTrip ==
    (OneValueSheet /\ Get(InSheet.data[<<0, 0>>].value).kind = "TimeDuration"
        /\ pc \in {"ok", "err"}) =>
        /\ pc = "ok"
        /\ Len(book) = 1
        /\ <<0, 0>> \in DOMAIN book[1].data
        /\ book[1].data[<<0, 0>>].value = InSheet.data[<<0, 0>>].value

\* the office:value attributes of the cell elements of a document
CellValueAttrs(doc) ==
    {AttrOf(doc[i].attrs, "office:value") :
        i \in {j \in 1..Len(doc) : IsCell(doc[j]) /\ HasAttr(doc[j].attrs, "office:value")}}

\* C25: the office:value attribute write_cell emits for Percentage(v) is a
\* plain decimal literal, and the Percentage branch of parse_value parses it
\* without error to the same v.
PercentageRoundTrip ==
    (OneValueSheet /\ Get(InSheet.data[<<0, 0>>].value).kind = "Percentage") =>
        /\ DocWritten => \A a \in CellValueAttrs(xml.doc) : ParseF64(a).ok
        /\ pc \in {"ok", "err"} =>
              /\ pc = "ok"
              /\ Len(book) = 1
              /\ <<0, 0>> \in DOMAIN book[1].data
              /\ book[1].data[<<0, 0>>].value = InSheet.data[<<0, 0>>].value

\* C26: an empty table-cell element advances the column cursor by its
\* number-columns-repeated count, by 1 when the attribute is absent, and
\* stores nothing, whatever other attributes (style name, formula) it has.
EmptyCellAdvances ==
    [][(Taken /\ pc = "content" /\ Is(TakenEvent, "Empty", "table:table-cell"))
       => /\ pc' = "content"
          /\ cur'.col = cur.col + RepeatOf(TakenEvent.attrs, "table:number-columns-repeated")
          /\ sheet' = sheet /\ book' = book]_vars

\* the start tag of the cell a generated stream is in
OpenTag == xml.open[Len(xml.open)]
RepeatedKeys(row, col, n) == {<<row, col + j>> : j \in 0..(n - 1)}

\* C27: a table-cell with a value and number-columns-repeated = n (n >= 1) is
\* stored as n equal entries at the columns col .. col+n-1 of the current
\* row and leaves the column cursor at col+n; without the attribute one
\* entry is stored and the cursor advances by 1.
RepeatedCellStored ==
    [][(Taken /\ pc = "cell" /\ Is(TakenEvent, "End", "table:table-cell") /\ pc' = "content")
       => LET n == RepeatOf(OpenTag.attrs, "table:number-columns-repeated")
          IN  /\ cur'.col = cur.col + n
              /\ cur'.row = cur.row
              /\ DOMAIN sheet'.data = DOMAIN sheet.data \cup RepeatedKeys(cur.row, cur.col, n)
              /\ \A k \in RepeatedKeys(cur.row, cur.col, n) :
                    sheet'.data[k] = sheet'.data[<<cur.row, cur.col>>]
              /\ \A k \in DOMAIN sheet.data \ RepeatedKeys(cur.row, cur.col, n) :
                    sheet'.data[k] = sheet.data[k]]_vars
RepeatedCellStoredWitness ==
    /\ Delivered
    /\ pc = "content"
    /\ Is(LastEvent, "End", "table:table-cell")
    /\ \E i \in 1..Len(xml.doc) :
          xml.doc[i] = start_a("table:table-cell",
                               Attr("table:number-columns-repeated", <<"2">>) \o FloatOne)
    /\ cur.col = 2
    /\ DOMAIN sheet.data = {<<cur.row, 0>>, <<cur.row, 1>>}
    /\ sheet.data[<<cur.row, 0>>].value = Some(VNumber(10))
    /\ sheet.data[<<cur.row, 1>>] = sheet.data[<<cur.row, 0>>]

\* the table-column elements of a document, in order, and the distance from
\* the i-th column entry of a sheet to the next entry or to the used extent
ColumnElems(doc) == SortedNats({i \in 1..Len(doc) : Is(doc[i], "Empty", "table:table-column")})
ColumnKeys(sh) == SortedNats(DOMAIN sh.columns)
ColumnDistance(sh, i) ==
    (IF i < Len(ColumnKeys(sh)) THEN ColumnKeys(sh)[i + 1] ELSE used_grid_size(sh)[2])
    - ColumnKeys(sh)[i]
ColumnRepeats(e) == HasAttr(e.attrs, "table:number-columns-repeated")

\* C28 as stated: for each column entry at index c write_table_columns emits
\* one table-column element whose repeat count is (next column key - c), or
\* (used column extent - c) for the last entry, the attribute being omitted
\* when the count is 1.
ColumnRepeatIsDistance ==
    DocWritten =>
        /\ Len(ColumnElems(xml.doc)) = Len(ColumnKeys(InSheet))
        /\ \A i \in 1..Len(ColumnKeys(InSheet)) :
              /\ RepeatOf(xml.doc[ColumnElems(xml.doc)[i]].attrs,
                          "table:number-columns-repeated") = ColumnDistance(InSheet, i)
              /\ ColumnRepeats(xml.doc[ColumnElems(xml.doc)[i]])
                     <=> ColumnDistance(InSheet, i) # 1

\* C28, amended: the repeat count is that distance when the distance is
\* more than 1; when it is 1 or less (the last entry lies at or beyond the
\* used column extent) the attribute is omitted and the element stands for
\* one column.
ColumnRepeatIsDistanceAboveOne ==
    DocWritten =>
        /\ Len(ColumnElems(xml.doc)) = Len(ColumnKeys(InSheet))
        /\ \A i \in 1..Len(ColumnKeys(InSheet)) :
              IF ColumnDistance(InSheet, i) > 1
              THEN /\ ColumnRepeats(xml.doc[ColumnElems(xml.doc)[i]])
                   /\ RepeatOf(xml.doc[ColumnElems(xml.doc)[i]].attrs,
                               "table:number-columns-repeated") = ColumnDistance(InSheet, i)
              ELSE ~ColumnRepeats(xml.doc[ColumnElems(xml.doc)[i]])
ColumnRepeatIsDistanceAboveOneWitness ==
    /\ DocWritten
    /\ DOMAIN InSheet.columns = {0, MaxCol + 2}
    /\ Len(ColumnElems(xml.doc)) = 2
    /\ ColumnRepeats(xml.doc[ColumnElems(xml.doc)[1]])
    /\ ~ColumnRepeats(xml.doc[ColumnElems(xml.doc)[2]])

PartKinds(parts) == [i \in 1..Len(parts) |-> parts[i].ftype]

\* C29: for each of the 21 kinds of format part, the element
\* write_value_styles emits for a part of that kind is read back by
\* read_styles as a part of the same kind, and the parts of a format keep
\* their order.
PartKindsRoundTrip ==
    (fmt.step = "done" /\ fmt.closed) =>
        /\ Len(fmt.formats) = 1
        /\ PartKinds(fmt.formats[1].parts) = PartKinds(fmt.style.parts)

\* the field a digit at position i of a duration string counts for, from the
\* markers that stand before it
MarkerBefore(d, i, c) == \E j \in 1..(i - 1) : d[j] = c
FieldOf(d, i) ==
    IF ~MarkerBefore(d, i, "H") THEN "hour"
    ELSE IF ~MarkerBefore(d, i, "M") THEN "min"
    ELSE IF ~MarkerBefore(d, i, ".") THEN "sec"
    ELSE "nanos"
\* the same, with seconds only for an M that stands after the H
FieldOfOrdered(d, i) ==
    IF ~MarkerBefore(d, i, "H") THEN "hour"
    ELSE IF ~\E j \in 1..(i - 1) : d[j] = "M" /\ MarkerBefore(d, j, "H") THEN "min"
    ELSE IF ~MarkerBefore(d, i, ".") THEN "sec"
    ELSE "nanos"

FieldPositions(d, Field(_, _), f) == {i \in 1..Len(d) : IsDigit(d[i]) /\ Field(d, i) = f}
RECURSIVE FieldNat(_, _, _)
FieldNat(d, ps, acc) ==
    IF ps = {} THEN acc
    ELSE LET i == CHOOSE i \in ps : \A j \in ps : i <= j
         IN  FieldNat(d, ps \ {i}, acc * 10 + DigitVal(d[i]))
DurationByField(d, Field(_, _)) ==
    LET h  == FieldNat(d, FieldPositions(d, Field, "hour"), 0)
        m  == FieldNat(d, FieldPositions(d, Field, "min"), 0)
        sc == FieldNat(d, FieldPositions(d, Field, "sec"), 0)
        fp == FieldPositions(d, Field, "nanos")
        n  == PadRight(FieldNat(d, fp, 0), 9 - Cardinality(fp))
    IN  VTimeDuration(h * 3600 + m * 60 + sc + n \div NanosPerSec, n % NanosPerSec)

TimeCellRead == CellClosed /\ HasAttr(CellTag.attrs, "office:time-value")
TimeString == AttrOf(CellTag.attrs, "office:time-value")

\* C30 as stated: the digits of a duration count as hours until an H has been
\* seen, as minutes after the H, and as seconds only after an M that follows
\* the H; a string without H, such as PT30M, has its digits counted as hours.
DigitsByMarkerInOrder ==
    TimeCellRead =>
        /\ <<0, 0>> \in DOMAIN ReadSheet.data
        /\ ReadSheet.data[<<0, 0>>].value
              = Some(DurationByField(TimeString, FieldOfOrdered))

\* C30: the digits of a duration count as hours until an H has been seen, as
\* minutes once an H has been seen, and as seconds once an H and an M have
\* both been seen, in whichever order; a string without H, such as PT30M,
\* has its digits counted as hours.
DigitsByMarker ==
    TimeCellRead =>
        /\ <<0, 0>> \in DOMAIN ReadSheet.data
        /\ ReadSheet.data[<<0, 0>>].value = Some(DurationByField(TimeString, FieldOf))
DigitsByMarkerWitness ==
    /\ TimeCellRead
    /\ TimeString = <<"P", "T", "3", "0", "M">>
    /\ <<0, 0>> \in DOMAIN ReadSheet.data
    /\ ReadSheet.data[<<0, 0>>].value = Some(VTimeDuration(30 * 3600, 0))

\* C31: in every locale the default time-interval format targets the value
\* type TimeDuration and has truncate_on_overflow = false, and the
\* time-of-day format keeps truncate_on_overflow at its default, true.
TimeIntervalAccumulates ==
    fmt.step = "defaults" =>
        /\ "time_interval" \in DOMAIN fmt.built =>
              /\ fmt.built["time_interval"].v_type = "TimeDuration"
              /\ fmt.built["time_interval"].truncate_on_overflow = FALSE
        /\ "time_of_day" \in DOMAIN fmt.built =>
              fmt.built["time_of_day"].truncate_on_overflow = TRUE

\* C37: within one locale the eight default formats have pairwise distinct
\* names, so a workbook in which all eight were registered holds eight.
DefaultNamesDistinct ==
    (fmt.step = "defaults" /\ DOMAIN fmt.built = DefaultKinds) =>
        /\ \A j, k \in DefaultKinds : j # k => fmt.built[j].name # fmt.built[k].name
        /\ Cardinality(DOMAIN fmt.formats) = Cardinality(DefaultKinds)

\* what one call appended to the output of the XmlWriter
Appended(w1, w2) == SubSeq(w2.out, Len(w1.out) + 1, Len(w2.out))
Terminator(open) == IF open = "Elem" THEN ">" ELSE "/>"

\* C32: a tag opened by elem() or empty() is terminated, with ">" for elem
\* and "/>" for empty, before a following element, text or end tag is
\* written and before the writer is closed; with no tag open nothing is
\* added, and after a text or an end tag no tag is open.
OpenTagTerminated ==
    [][LET w == Appended(xw, xw')
       IN  /\ (xw.open # "None" /\ w # <<>> /\ w[1] # " ") => w[1] = Terminator(xw.open)
           /\ (xw.open = "None" /\ w # <<>>) => w[1] \notin {">", "/>"}
           /\ (w # <<>> /\ w[Len(w)] \in {"t", ">"}) => xw'.open = "None"
           /\ (xw.step = "run" /\ xw'.step = "closed") => xw.open = "None"]_vars

\* the names of the elements open after the events doc[i..], or <<"!">> when
\* an end event does not match the element that is open
RECURSIVE OpenAfter(_, _, _)
OpenAfter(doc, i, stack) ==
    IF i > Len(doc) THEN stack
    ELSE IF doc[i].k = "Start" THEN OpenAfter(doc, i + 1, Append(stack, doc[i].name))
    ELSE IF doc[i].k = "End"
         THEN (IF stack # <<>> /\ stack[Len(stack)] = doc[i].name
               THEN OpenAfter(doc, i + 1, SubSeq(stack, 1, Len(stack) - 1))
               ELSE <<"!">>)
    ELSE OpenAfter(doc, i + 1, stack)
WellNested(doc) == OpenAfter(doc, 1, <<>>) = <<>>

\* C33: the events write_ods_content emits are well nested for every
\* workbook, also one with fonts, styles and formats of origin Content:
\* every start event has its end event of the same name, in stack order.
ContentWellNested ==
    DocWritten => WellNested(xml.doc)

\* the cells stored for the row the cursor is in
CellsOfRow(sh, row) == {k \in DOMAIN sh.data : k[1] = row}

\* C34: when the end of a table-row element with number-rows-repeated = n is
\* read and the row holds cells with values, those cells are stored in each
\* of the rows row .. row+n-1, not only in the first of them.
RepeatedRowCellsStored ==
    [][(/\ Taken /\ pc = "content"
        /\ Is(TakenEvent, "End", "table:table-row")
        /\ Top(xml.open) = "table:table-row"
        /\ CellsOfRow(sheet, cur.row) # {})
       => LET n == RepeatOf(OpenTag.attrs, "table:number-rows-repeated")
          IN  \A k \in CellsOfRow(sheet, cur.row) : \A r \in cur.row..(cur.row + n - 1) :
                 /\ <<r, k[2]>> \in DOMAIN sheet'.data
                 /\ sheet'.data[<<r, k[2]>>] = sheet.data[k]]_vars

\* C35: column entries survive a write followed by a read at the same
\* indices: every column index that had an entry has, after the round trip,
\* an entry with the same style and default cell style, whether the first
\* key is 0 or greater, with or without gaps, and with the last key inside
\* or outside the used column extent.
ColumnsSurvive ==
    (pc = "ok" /\ xml.mode = "doc" /\ Len(book) = 1) =>
        \A c \in DOMAIN InSheet.columns :
            /\ c \in DOMAIN book[1].columns
            /\ book[1].columns[c] = InSheet.columns[c]

StyledRows(sh) == {r \in DOMAIN sh.rows : IsSome(sh.rows[r].style)}
OccupiedRows(sh) == {k[1] : k \in DOMAIN sh.data}

\* C36: row styles survive a write followed by a read: every row index for
\* which the sheet records a row style, whether or not that row has occupied
\* cells, has the same row style after the round trip.
RowStylesSurvive ==
    (pc = "ok" /\ xml.mode = "doc" /\ Len(book) = 1) =>
        \A r \in StyledRows(InSheet) :
            /\ r \in DOMAIN book[1].rows
            /\ book[1].rows[r].style = InSheet.rows[r].style

\* C38: writing a workbook that was read from file A to a different path B
\* leaves file A in place under its name: no step of the write changes the
\* file at A, and the source is renamed to a backup only when the
\* destination is the source path itself.
SourceStaysForOtherPath ==
    [][(arch.step # "idle" /\ IsSome(arch.file) /\ arch.ods_path # Get(arch.file))
       => /\ arch'.fs[Get(arch.file)] = arch.fs[Get(arch.file)]
          /\ arch'.orig_bak = None]_vars

====
